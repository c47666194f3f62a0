---------------------------- MODULE TotalsProofs ----------------------------
(***************************************************************************)
(* Proofs about totals: that the amounts the sales tables keep, and the    *)
(* figures the reports of the sales ledger and of the books compute, agree *)
(* for every set of documents, bank transactions, transactions, entries    *)
(* and accounts.                                                           *)
(***************************************************************************)
EXTENDS SalesReports, Reports, LedgerProofs, SumTheorems

-----------------------------------------------------------------------------
(***************************************************************************)
(* The inductive invariant of the settlement.                              *)
(***************************************************************************)

\* No row is held by two transactions.
LocksApart ==
  \A t, u \in Txns : t # u => tx[t].held \intersect tx[u].held = {}

IdleInv(t) == tx[t].op = "none" => tx[t] = Idle

\* An issue: what it still has to lock, and what it has found where it holds the lock.
IssueInv(t) ==
  LET d == tx[t].target
      plan == tx[t].plan
      done == Len(plan) + 1 - Len(tx[t].todo)
  IN  tx[t].op = "issue" =>
        /\ d \in Docs /\ d \in tx[t].held /\ doc[d].status = "DRAFT"
        /\ doc[d].kind = "ADVANCE_INVOICE" => plan = <<>>
        /\ done >= 0
        /\ \A i \in DOMAIN tx[t].todo :
             tx[t].todo[i] = IF done + i = Len(plan) + 1 THEN Books
                             ELSE plan[done + i].advance
        /\ \A k \in DOMAIN plan :
             k <= done => plan[k].advance \in tx[t].held /\ Usable(plan[k])
        /\ tx[t].todo = <<>> =>
             /\ Books \in tx[t].held /\ tx[t].number = series /\ Issuable(t)

CreditInv(t) ==
  LET o == tx[t].target
      c == tx[t].note
  IN  tx[t].op = "credit" =>
        /\ {o, c} \subseteq Docs \intersect tx[t].held
        /\ doc[o].status = "ISSUED" /\ doc[c].status = "ABSENT"
        /\ tx[t].amount > 0
        /\ IF tx[t].whole THEN NotesOf(o) = {} ELSE tx[t].amount <= Creditable(o)
        /\ tx[t].todo \in {<<>>, <<Books>>}
        /\ tx[t].todo = <<>> => Books \in tx[t].held /\ tx[t].number = series

ReconcileInv(t) ==
  LET b == tx[t].target
      allocations == bank[b].allocations
      done == Len(allocations) + 1 - Len(tx[t].todo)
  IN  tx[t].op = "reconcile" =>
        /\ b \in Banks /\ b \in tx[t].held
        /\ bank[b].status # "POSTED" /\ allocations # <<>>
        /\ done >= 0
        /\ \A i \in DOMAIN tx[t].todo :
             tx[t].todo[i] = IF done + i = 1 THEN Books
                             ELSE allocations[done + i - 1].target
        /\ \A k \in DOMAIN allocations :
             k < done /\ allocations[k].target # NoDoc =>
               /\ allocations[k].target \in tx[t].held
               /\ doc[allocations[k].target].status = "ISSUED"

TxInv == \A t \in Txns : IdleInv(t) /\ IssueInv(t) /\ CreditInv(t) /\ ReconcileInv(t)

\* A document that is not issued has left no trace.
Traceless(d) ==
  /\ doc[d].advance = 0 /\ doc[d].credited = 0 /\ doc[d].paid = 0
  /\ doc[d].kind # "SALES_CREDIT_NOTE" /\ doc[d].number = 0
  /\ posting[d] = NotPosted /\ manual[d] = 0
  /\ \A x \in Docs : /\ applied[<<d, x>>] = 0 /\ applied[<<x, d>>] = 0
                     /\ <<d, x>> \notin credits /\ <<x, d>> \notin credits
  /\ \A b \in Banks : \A k \in DOMAIN bank[b].allocations :
       bank[b].allocations[k].target # d

UnissuedInv == \A d \in Docs : ~Issued(d) => Traceless(d)

PostingInv ==
  \A d \in Docs : Issued(d) =>
    /\ posting[d] = IF doc[d].kind = "SALES_CREDIT_NOTE"
                    THEN [receivable |-> -doc[d].total, advances |-> 0,
                          revenue |-> doc[d].total]
                    ELSE IssuePosting(d, doc[d].advance)
    /\ doc[d].kind # "SALES_INVOICE" => doc[d].advance = 0

AppliedInv ==
  /\ \A f \in Docs : doc[f].advance = SumFunction([a \in Docs |-> applied[<<a, f>>]])
  /\ \A a, f \in Docs : applied[<<a, f>>] # 0 => doc[a].kind = "ADVANCE_INVOICE"

CreditsInv ==
  \A x \in credits : doc[x[2]].kind = "SALES_CREDIT_NOTE"

IInv ==
  /\ TypeOK /\ LocksApart /\ TxInv
  /\ UnissuedInv /\ PostingInv /\ AppliedInv /\ CreditsInv
  /\ AdvancesNotOverdrawn /\ InvoiceNumbersGapless /\ CreditsAddUp /\ PaidOnce
  /\ series > 0

(***************************************************************************)
(* Types.                                                                  *)
(***************************************************************************)

\* The elements of a sequence, by their positions.
LEMMA ElementType ==
  ASSUME NEW R, NEW seq \in Seq(R)
  PROVE  DOMAIN seq = 1 .. Len(seq) /\ \A k \in 1 .. Len(seq) : seq[k] \in R
OBVIOUS

\* A sequence that is neither empty nor longer than one.
LEMMA SingleElement ==
  ASSUME NEW R, NEW seq \in Seq(R), seq # <<>>, ~(Len(seq) > 1)
  PROVE  Len(seq) = 1 /\ Head(seq) = seq[1] /\ DOMAIN seq = {1}
<1>1. Len(seq) = 1
  <2>1. Len(seq) \in Nat \ {0}
    BY EmptySeq
  <2>. QED
    BY <2>1
<1>2. DOMAIN seq = 1 .. 1
  BY <1>1
<1>. QED
  BY <1>1, <1>2

\* The amounts of the allocations of a bank transaction are positive.
LEMMA AllocationsNat ==
  ASSUME NEW seq \in Seq(Allocation)
  PROVE  \A k \in DOMAIN seq : seq[k].amount \in Nat /\ seq[k].amount > 0
<1>1. \A x \in Allocation : x.amount \in Amounts
  BY DEF Allocation
<1>2. \A n \in Amounts : n \in Nat /\ n > 0
  BY SettlementAssumption
<1>. QED
  BY <1>1, <1>2, ElementType

\* The amounts an issue request takes from advances are positive.
LEMMA PlanNat ==
  ASSUME NEW plan \in Seq(Use)
  PROVE  \A k \in DOMAIN plan : plan[k].amount \in Nat /\ plan[k].amount > 0
<1>1. \A x \in Use : x.amount \in Amounts
  BY DEF Use
<1>2. \A n \in Amounts : n \in Nat /\ n > 0
  BY SettlementAssumption
<1>. QED
  BY <1>1, <1>2, ElementType

\* The amounts of a list add up to a natural.
LEMMA SumOfNat ==
  ASSUME NEW R, NEW seq \in Seq(R), \A k \in DOMAIN seq : seq[k].amount \in Nat
  PROVE  SumOf(seq) \in Nat
<1> DEFINE f == AmountsOf(seq)
<1>1. DOMAIN f = DOMAIN seq /\ \A k \in DOMAIN seq : f[k] \in Nat
  BY DEF AmountsOf
<1>2. IsFiniteSet(DOMAIN seq)
  BY FS_Interval
<1>3. SumFunctionOnSet(f, DOMAIN f) \in Nat
  <2>. HIDE DEF f
  <2>. QED  BY <1>1, <1>2, SumNat
<1>. QED
  BY <1>3 DEF SumOf, SumFunction

\* What was taken from a document is a natural.
LEMMA AppliedFromNat ==
  ASSUME TypeOK, NEW a \in Docs
  PROVE  AppliedFrom(a) \in Nat
<1> DEFINE f == [d \in Docs |-> applied[<<a, d>>]]
<1>1. DOMAIN f = Docs /\ \A d \in Docs : f[d] \in Nat
  BY DEF TypeOK
<1>2. SumFunctionOnSet(f, DOMAIN f) \in Nat
  <2>. HIDE DEF f
  <2>. QED  BY <1>1, SumNat, SettlementAssumption
<1>. QED
  BY <1>2 DEF AppliedFrom, SumFunction

\* The rows an open transaction may go on to hold, and its shape once it has moved.
LEMMA InitType == Init => TypeOK
<1>. SUFFICES ASSUME Init PROVE TypeOK
  OBVIOUS
<1>1. AbsentDoc \in Doc
  BY DEF AbsentDoc, DraftDoc, Doc, DocStatus, Kind
<1>2. NotPosted \in Posting
  BY DEF NotPosted, Posting
<1>3. Idle \in Tx
  BY DEF Idle, Tx
<1>. QED
  BY <1>1, <1>2, <1>3 DEF Init, TypeOK, BankStatus

\* A row that createInvoice inserts has the shape of its table.
LEMMA DraftDocType ==
  ASSUME NEW draft \in Drafts
  PROVE  DraftDoc(draft) \in Doc
BY SettlementAssumption DEF DraftDoc, Doc, DocStatus, Kind

\* A row that a payment writes has the shape of its table.
LEMMA PaidType ==
  ASSUME TypeOK, NEW d \in Docs, NEW amount \in Nat
  PROVE  Paid(d, amount) \in Doc
<1>1. PaymentStatus(Open(d) - amount, doc[d].paid + amount)
        \in {"UNPAID", "PARTIALLY_PAID", "PAID"}
  BY DEF PaymentStatus
<1>2. doc[d] \in Doc /\ doc[d].paid + amount \in Nat
  BY DEF TypeOK, Doc
<1>. QED
  BY <1>1, <1>2 DEF Paid, Doc

\* Drafts and payments by hand keep the shapes.
LEMMA EditType ==
  ASSUME TypeOK, Edit
  PROVE  TypeOK'
<1>1. ASSUME NEW d \in Docs, NEW draft \in Drafts,
             CreateInvoiceDraft(d, draft) \/ UpdateDraft(d, draft)
      PROVE  TypeOK'
  BY <1>1, DraftDocType DEF CreateInvoiceDraft, UpdateDraft, TypeOK
<1>2. ASSUME NEW d \in Docs, CancelDraft(d)
      PROVE  TypeOK'
  <2>1. [doc[d] EXCEPT !.status = "CANCELLED_DRAFT"] \in Doc
    BY DEF TypeOK, Doc, DocStatus
  <2>. QED
    BY <1>2, <2>1 DEF CancelDraft, TypeOK
<1>3. ASSUME NEW d \in Docs, NEW amount \in Amounts, Pay(d, amount)
      PROVE  TypeOK'
  <2>1. amount \in Nat
    BY SettlementAssumption
  <2>2. Paid(d, amount) \in Doc
    BY <2>1, PaidType
  <2>3. manual[d] + amount \in Nat
    BY <2>1 DEF TypeOK
  <2>. QED
    BY <1>3, <2>2, <2>3 DEF Pay, TypeOK
<1>. QED
  BY <1>1, <1>2, <1>3 DEF Edit

\* The operations on bank transactions keep the shapes.
LEMMA MatchType ==
  ASSUME TypeOK, Match
  PROVE  TypeOK'
<1> DEFINE B == [status : BankStatus, allocations : Seq(Allocation)]
<1>1. ASSUME NEW b \in Banks, NEW d \in Docs \union {NoDoc}, NEW amount \in Amounts,
             CreateAllocation(b, d, amount)
      PROVE  TypeOK'
  <2>1. [target |-> d, amount |-> amount] \in Allocation
    BY DEF Allocation
  <2>2. bank[b] \in B
    BY DEF TypeOK
  <2>3. [status |-> MatchStatus(b, SumOf(bank[b].allocations) + amount),
         allocations |-> Append(bank[b].allocations, [target |-> d, amount |-> amount])] \in B
    BY <2>1, <2>2 DEF MatchStatus, BankStatus
  <2>4. bank' \in [Banks -> B]
    BY <1>1, <2>3 DEF CreateAllocation, TypeOK
  <2>. QED
    BY <1>1, <2>4 DEF CreateAllocation, TypeOK
<1>2. ASSUME NEW b \in Banks, NEW k \in 1 .. MaxAllocations, DeleteAllocation(b, k)
      PROVE  TypeOK'
  <2> DEFINE s == bank[b].allocations
  <2>1. s \in Seq(Allocation) /\ k \in 1 .. Len(s)
    BY <1>2 DEF TypeOK, DeleteAllocation
  <2>2. RemoveAt(s, k) \in Seq(Allocation)
    <3>1. SubSeq(s, 1, k - 1) \in Seq(Allocation) /\ SubSeq(s, k + 1, Len(s)) \in Seq(Allocation)
      BY <2>1
    <3>. QED
      BY <3>1 DEF RemoveAt
  <2>3. bank' \in [Banks -> B]
    BY <1>2, <2>2 DEF DeleteAllocation, TypeOK, BankStatus
  <2>. QED
    BY <1>2, <2>3 DEF DeleteAllocation, TypeOK
<1>3. ASSUME NEW b \in Banks, ReviewNoPost(b)
      PROVE  TypeOK'
  BY <1>3 DEF ReviewNoPost, TypeOK, BankStatus
<1>. QED
  BY <1>1, <1>2, <1>3 DEF Match

\* The fields of an open transaction.
LEMMA TxFields ==
  ASSUME TypeOK, NEW t \in Txns
  PROVE  /\ tx[t] \in Tx
         /\ tx[t].plan \in Seq(Use)
         /\ tx[t].todo \in Seq(Docs \union {Books, NoDoc})
         /\ tx[t].held \subseteq Docs \union Banks \union {Books}
         /\ tx[t].amount \in Nat /\ tx[t].number \in Nat /\ tx[t].whole \in BOOLEAN
         /\ SumOf(tx[t].plan) \in Nat
<1>1. tx[t] \in Tx
  BY DEF TypeOK
<1>2. tx[t].plan \in Seq(Use)
  BY <1>1 DEF Tx
<1>3. SumOf(tx[t].plan) \in Nat
  BY <1>2, PlanNat, SumOfNat
<1>. QED
  BY <1>1, <1>2, <1>3 DEF Tx

\* The tables do not change: only the type of the transaction that moves matters.
LEMMA MovedType ==
  ASSUME TypeOK, NEW t \in Txns, NEW next \in Tx, Moved(t, next),
         UNCHANGED <<doc, applied, credits, posting, series, manual, bank>>
  PROVE  TypeOK'
<1>1. tx' \in [Txns -> Tx]
  BY DEF TypeOK, Moved
<1>. QED
  BY <1>1 DEF TypeOK

\* A transaction that is closed has the shape of one.
LEMMA IdleType == Idle \in Tx
BY DEF Idle, Tx

\* An issue that begins.
IssueTx(d, used) ==
  [Idle EXCEPT !.op = "issue", !.target = d, !.plan = used, !.held = {d},
               !.todo = Append([k \in DOMAIN used |-> used[k].advance], Books)]

\* An issue that begins, field by field.
LEMMA IssueTxType ==
  ASSUME NEW d \in Docs, NEW used \in Seq(Use)
  PROVE  LET x == IssueTx(d, used)
         IN  /\ x \in Tx /\ x.op = "issue" /\ x.target = d /\ x.held = {d} /\ x.plan = used
             /\ Len(x.todo) = Len(used) + 1
             /\ \A i \in 1 .. Len(used) + 1 :
                  x.todo[i] = IF i = Len(used) + 1 THEN Books ELSE used[i].advance
<1> DEFINE q == [k \in DOMAIN used |-> used[k].advance]
           R == Docs \union {Books, NoDoc}
           x == IssueTx(d, used)
<1>1. q \in Seq(R) /\ Len(q) = Len(used) /\ \A k \in 1 .. Len(used) : q[k] = used[k].advance
  <2>1. \A k \in 1 .. Len(used) : used[k].advance \in Docs
    <3>1. \A use \in Use : use.advance \in Docs
      BY DEF Use
    <3>. QED
      BY <3>1, ElementType
  <2>2. q \in [1 .. Len(used) -> R]
    BY <2>1
  <2>. QED
    BY <2>2
<1>2. /\ Append(q, Books) \in Seq(R) /\ Len(Append(q, Books)) = Len(used) + 1
      /\ \A i \in 1 .. Len(used) + 1 :
           Append(q, Books)[i] = IF i = Len(used) + 1 THEN Books ELSE used[i].advance
  <2>. HIDE DEF q
  <2>. QED  BY <1>1
<1>3. Idle \in Tx
  BY IdleType
<1>4. /\ x \in Tx /\ x.op = "issue" /\ x.target = d /\ x.held = {d} /\ x.plan = used
      /\ x.todo = Append(q, Books)
  <2>1. x = [Idle EXCEPT !.op = "issue", !.target = d, !.plan = used, !.held = {d},
                         !.todo = Append(q, Books)]
    BY DEF IssueTx
  <2>. HIDE DEF q, x
  <2>. QED  BY <1>2, <1>3, <2>1 DEF Tx
<1>. QED
  <2>. HIDE DEF q, x
  <2>. QED  BY <1>2, <1>4 DEF x

CreditTx(o, c, amount, whole) ==
  [Idle EXCEPT !.op = "credit", !.target = o, !.amount = amount, !.note = c,
               !.whole = whole, !.held = {o, c}, !.todo = <<Books>>]

\* A credit note that begins, field by field.
LEMMA CreditTxType ==
  ASSUME NEW o \in Docs, NEW c \in Docs, NEW amount \in Nat, NEW whole \in BOOLEAN
  PROVE  LET x == CreditTx(o, c, amount, whole)
         IN  /\ x \in Tx /\ x.op = "credit" /\ x.target = o /\ x.note = c
             /\ x.held = {o, c} /\ x.amount = amount /\ x.whole = whole
             /\ x.todo = <<Books>>
<1>1. Idle \in Tx
  BY IdleType
<1>2. <<Books>> \in Seq(Docs \union {Books, NoDoc})
  OBVIOUS
<1>. QED
  BY <1>1, <1>2 DEF CreditTx, Tx

ReconcileTx(b) ==
  [Idle EXCEPT !.op = "reconcile", !.target = b, !.held = {b},
               !.todo = <<Books>> \o [k \in DOMAIN bank[b].allocations |->
                                        bank[b].allocations[k].target]]

\* A reconciliation that begins, field by field: the books come first.
LEMMA ReconcileTxType ==
  ASSUME TypeOK, NEW b \in Banks
  PROVE  LET x == ReconcileTx(b)
             n == Len(bank[b].allocations)
         IN  /\ x \in Tx /\ x.op = "reconcile" /\ x.target = b /\ x.held = {b}
             /\ Len(x.todo) = n + 1
             /\ \A i \in 1 .. n + 1 :
                  x.todo[i] = IF i = 1 THEN Books ELSE bank[b].allocations[i - 1].target
<1> DEFINE s == bank[b].allocations
           q == [k \in DOMAIN s |-> s[k].target]
           R == Docs \union {Books, NoDoc}
           x == ReconcileTx(b)
<1>1. s \in Seq(Allocation)
  BY DEF TypeOK
<1>2. q \in Seq(R) /\ Len(q) = Len(s) /\ \A k \in 1 .. Len(s) : q[k] = s[k].target
  <2>1. \A k \in 1 .. Len(s) : s[k] \in Allocation
    BY <1>1
  <2>2. q \in [1 .. Len(s) -> R]
    BY <1>1, <2>1 DEF Allocation
  <2>. QED
    BY <1>1, <2>2
<1>3. /\ <<Books>> \o q \in Seq(R) /\ Len(<<Books>> \o q) = Len(s) + 1
      /\ \A i \in 1 .. Len(s) + 1 :
           (<<Books>> \o q)[i] = IF i = 1 THEN Books ELSE s[i - 1].target
  <2>1. <<Books>> \in Seq(R) /\ Len(<<Books>>) = 1 /\ <<Books>>[1] = Books
    OBVIOUS
  <2>. HIDE DEF q, s
  <2>. QED  BY <1>1, <1>2, <2>1
<1>4. Idle \in Tx
  BY IdleType
<1>5. /\ x \in Tx /\ x.op = "reconcile" /\ x.target = b /\ x.held = {b}
      /\ x.todo = <<Books>> \o q
  <2>1. x = [Idle EXCEPT !.op = "reconcile", !.target = b, !.held = {b},
                         !.todo = <<Books>> \o q]
    BY DEF ReconcileTx
  <2>. HIDE DEF q, x
  <2>. QED  BY <1>3, <1>4, <2>1 DEF Tx
<1>. QED
  <2>. HIDE DEF q, x
  <2>. QED  BY <1>3, <1>5 DEF x

\* The first statements of a transaction keep the shapes.
LEMMA BeginType ==
  ASSUME TypeOK, NEW t \in Txns, Begin(t)
  PROVE  TypeOK'
<1>1. ASSUME NEW d \in Docs, NEW plan \in Plans, BeginIssue(t, d, plan)
      PROVE  TypeOK'
  <2> DEFINE used == IF doc[d].kind = "ADVANCE_INVOICE" THEN <<>> ELSE plan
  <2>1. used \in Seq(Use)
    <3>1. plan \in Seq(Use)
      BY SettlementAssumption
    <3>2. <<>> \in Seq(Use)
      OBVIOUS
    <3>. QED
      BY <3>1, <3>2
  <2>2. Moved(t, IssueTx(d, used)) /\ UNCHANGED <<doc, applied, credits, posting, series, manual, bank>>
    BY <1>1 DEF BeginIssue, IssueTx
  <2>3. IssueTx(d, used) \in Tx
    BY <2>1, IssueTxType
  <2>. QED
    BY <2>2, <2>3, MovedType
<1>2. ASSUME NEW o \in Docs, NEW c \in Docs, NEW amount \in Amounts, NEW whole \in BOOLEAN,
             BeginCredit(t, o, c, amount, whole)
      PROVE  TypeOK'
  <2>1. amount \in Nat
    BY SettlementAssumption
  <2>2. CreditTx(o, c, amount, whole) \in Tx
    BY <2>1, CreditTxType
  <2>3. Moved(t, CreditTx(o, c, amount, whole)) /\ UNCHANGED <<doc, applied, credits, posting, series, manual, bank>>
    BY <1>2 DEF BeginCredit, CreditTx
  <2>. QED
    BY <2>2, <2>3, MovedType
<1>3. ASSUME NEW b \in Banks, BeginReconcile(t, b)
      PROVE  TypeOK'
  <2>1. Moved(t, ReconcileTx(b)) /\ UNCHANGED <<doc, applied, credits, posting, series, manual, bank>>
    BY <1>3 DEF BeginReconcile, ReconcileTx
  <2>. QED
    BY <2>1, ReconcileTxType, MovedType
<1>. QED
  BY <1>1, <1>2, <1>3 DEF Begin

\* What the test of the next row finds, by operation.
LEMMA StepType ==
  ASSUME TypeOK, NEW t \in Txns, Lock(t) \/ Refuse(t) \/ Abort(t)
  PROVE  TypeOK'
<1>1. ASSUME Lock(t) PROVE TypeOK'
  <2> DEFINE r == Head(tx[t].todo)
             n == IF r = Books /\ tx[t].op # "reconcile" THEN series ELSE tx[t].number
             next == [tx[t] EXCEPT !.todo = Tail(@), !.held = @ \union ({r} \ {NoDoc}),
                                   !.number = n]
  <2>1. tx[t] \in Tx
    BY TxFields
  <2>2. tx[t].todo \in Seq(Docs \union {Books, NoDoc}) /\ tx[t].todo # <<>>
    BY <1>1, TxFields DEF Lock
  <2>3. r \in Docs \union {Books, NoDoc} /\ Tail(tx[t].todo) \in Seq(Docs \union {Books, NoDoc})
    BY <2>2
  <2>4. n \in Nat /\ tx[t].held \union ({r} \ {NoDoc}) \in SUBSET (Docs \union Banks \union {Books})
    BY <2>1, <2>3 DEF TypeOK, Tx
  <2>5. next \in Tx
    <3>. HIDE DEF n, r
    <3>. QED  BY <2>1, <2>3, <2>4 DEF Tx
  <2>6. Moved(t, next) /\ UNCHANGED <<doc, applied, credits, posting, series, manual, bank>>
    BY <1>1 DEF Lock
  <2>. QED
    <3>. HIDE DEF next
    <3>. QED  BY <2>5, <2>6, MovedType
<1>2. ASSUME Refuse(t) \/ Abort(t) PROVE TypeOK'
  BY <1>2, IdleType, MovedType DEF Refuse, Abort
<1>. QED
  BY <1>1, <1>2

\* What a plan takes from an advance is a natural.
LEMMA UsedOfNat ==
  ASSUME NEW plan \in Seq(Use), NEW a
  PROVE  UsedOf(plan, a) \in Nat
<1> DEFINE f == AmountsOf(plan)
           S == {k \in DOMAIN plan : plan[k].advance = a}
<1>1. IsFiniteSet(S)
  BY FS_Interval, FS_Subset
<1>2. \A k \in S : f[k] \in Nat
  BY PlanNat DEF AmountsOf
<1>3. SumFunctionOnSet(f, S) \in Nat
  <2>. HIDE DEF f, S
  <2>. QED  BY <1>1, <1>2, SumNat
<1>. QED
  BY <1>3 DEF UsedOf

CreditedFields(o, amount, whole, x) ==
  /\ x \in Doc
  /\ whole => x.credited = doc[o].total /\ x.status = "CREDITED"
  /\ ~whole => x.credited = doc[o].credited + amount
  /\ ~whole => x.status = IF FullyCredited(o, x.credited) THEN "CREDITED"
                         ELSE doc[o].status
  /\ x.paid = doc[o].paid
  /\ x = [doc[o] EXCEPT !.status = x.status, !.payment = x.payment,
                        !.paid = x.paid, !.credited = x.credited]

\* The original after a credit note, field by field.
LEMMA CreditedType ==
  ASSUME TypeOK, NEW o \in Docs, NEW amount \in Nat, NEW whole \in BOOLEAN
  PROVE  /\ Credited(o, amount, whole) \in Doc
         /\ CreditedFields(o, amount, whole, Credited(o, amount, whole))
<1>1. doc[o] \in Doc /\ doc[o].credited + amount \in Nat /\ doc[o].total \in Nat
  BY DEF TypeOK, Doc
<1>. QED
  BY <1>1 DEF CreditedFields, Credited, Doc, DocStatus

NoteDoc(amount, n) ==
  [DraftDoc([kind |-> "SALES_CREDIT_NOTE", total |-> amount])
     EXCEPT !.status = "ISSUED", !.number = n]

\* The row of a credit note, field by field.
LEMMA NoteDocType ==
  ASSUME NEW amount \in Nat, NEW n \in Nat
  PROVE  LET x == NoteDoc(amount, n)
         IN  /\ x \in Doc
             /\ x.status = "ISSUED" /\ x.kind = "SALES_CREDIT_NOTE" /\ x.total = amount
             /\ x.advance = 0 /\ x.credited = 0 /\ x.paid = 0 /\ x.number = n
<1> DEFINE e == DraftDoc([kind |-> "SALES_CREDIT_NOTE", total |-> amount])
<1>1. /\ e \in Doc /\ e.kind = "SALES_CREDIT_NOTE" /\ e.total = amount
      /\ e.advance = 0 /\ e.credited = 0 /\ e.paid = 0
  BY DEF DraftDoc, Doc, DocStatus, Kind
<1>2. NoteDoc(amount, n) = [e EXCEPT !.status = "ISSUED", !.number = n]
  BY DEF NoteDoc
<1>. QED
  <2>. HIDE DEF e
  <2>. QED  BY <1>1, <1>2 DEF Doc, DocStatus

IssueWrites(t, d, plan) ==
  /\ d \in Docs /\ d \in tx[t].held /\ doc[d].status = "DRAFT"
  /\ plan \in Seq(Use) /\ ~DuplicateUse(plan) /\ SumOf(plan) \in Nat
  /\ doc[d].kind = "ADVANCE_INVOICE" => plan = <<>>
  /\ \A k \in DOMAIN plan : plan[k].advance \in tx[t].held /\ Usable(plan[k])
  /\ Books \in tx[t].held /\ Issuable(t)
  /\ doc' = [doc EXCEPT ![d] = doc'[d]]
  /\ doc'[d] \in Doc /\ doc'[d].status = "ISSUED" /\ doc'[d].number = series
  /\ doc'[d].advance = SumOf(plan) /\ doc'[d].kind = doc[d].kind
  /\ doc'[d].total = doc[d].total
  /\ doc'[d].credited = doc[d].credited /\ doc'[d].paid = doc[d].paid
  /\ applied' = [p \in Docs \X Docs |->
                   IF p[2] = d THEN UsedOf(plan, p[1]) ELSE applied[p]]
  /\ posting' = [posting EXCEPT ![d] = IssuePosting(d, SumOf(plan))]
  /\ series' = series + 1
  /\ tx' = [tx EXCEPT ![t] = Idle]
  /\ UNCHANGED <<credits, manual, bank>>

\* What an issue finds when it commits, and what it writes.
LEMMA IssueFacts ==
  ASSUME IInv, NEW t \in Txns, CommitIssue(t)
  PROVE  IssueWrites(t, tx[t].target, tx[t].plan)
<1> DEFINE d == tx[t].target
           plan == tx[t].plan
<1>1. /\ tx[t].op = "issue" /\ tx[t].todo = <<>> /\ ~DuplicateUse(plan)
  BY DEF CommitIssue, Ready
<1>2. /\ TypeOK /\ IssueInv(t)
  BY DEF IInv, TxInv
<1>3. /\ d \in Docs /\ d \in tx[t].held /\ doc[d].status = "DRAFT"
      /\ doc[d].kind = "ADVANCE_INVOICE" => plan = <<>>
      /\ Books \in tx[t].held /\ Issuable(t) /\ tx[t].number = series
  BY <1>1, <1>2 DEF IssueInv
<1>4. plan \in Seq(Use) /\ SumOf(plan) \in Nat /\ tx[t].number \in Nat
  BY <1>2, TxFields
<1>5. \A k \in DOMAIN plan : plan[k].advance \in tx[t].held /\ Usable(plan[k])
  <2>1. Len(tx[t].todo) = 0
    BY <1>1
  <2>2. \A k \in DOMAIN plan : k <= Len(plan) + 1 - Len(tx[t].todo)
    BY <1>4, <2>1
  <2>. QED
    BY <1>1, <1>2, <2>2 DEF IssueInv
<1>6. doc' = [doc EXCEPT ![d] = [doc[d] EXCEPT !.status = "ISSUED", !.number = tx[t].number,
                                               !.advance = SumOf(plan)]]
  BY <1>2, <1>3 DEF CommitIssue, TypeOK
<1>7. doc'[d] = [doc[d] EXCEPT !.status = "ISSUED", !.number = tx[t].number,
                               !.advance = SumOf(plan)]
  BY <1>2, <1>3, <1>6 DEF TypeOK
<1>8. doc[d] \in Doc
  BY <1>2, <1>3 DEF TypeOK
<1>9. /\ doc'[d] \in Doc /\ doc'[d].status = "ISSUED" /\ doc'[d].number = series
      /\ doc'[d].advance = SumOf(plan) /\ doc'[d].kind = doc[d].kind
      /\ doc'[d].total = doc[d].total
      /\ doc'[d].credited = doc[d].credited /\ doc'[d].paid = doc[d].paid
  BY <1>3, <1>4, <1>7, <1>8 DEF Doc, DocStatus
<1>10. /\ applied' = [p \in Docs \X Docs |->
                        IF p[2] = d THEN UsedOf(plan, p[1]) ELSE applied[p]]
       /\ posting' = [posting EXCEPT ![d] = IssuePosting(d, SumOf(plan))]
       /\ series' = series + 1
       /\ tx' = [tx EXCEPT ![t] = Idle]
       /\ UNCHANGED <<credits, manual, bank>>
  BY <1>3 DEF CommitIssue, Moved
<1>. QED
  BY <1>1, <1>3, <1>4, <1>5, <1>6, <1>7, <1>9, <1>10 DEF IssueWrites

CreditWrites(t, o, c, amount, whole) ==
  /\ o \in Docs /\ c \in Docs /\ o # c /\ {o, c} \subseteq tx[t].held
  /\ doc[o].status = "ISSUED" /\ doc[c].status = "ABSENT"
  /\ amount \in Nat /\ amount > 0 /\ whole \in BOOLEAN
  /\ IF whole THEN NotesOf(o) = {} /\ WholeAllowed(o) ELSE amount <= Creditable(o)
  /\ LinkValid(o, amount) /\ Books \in tx[t].held
  /\ doc' = [doc EXCEPT ![c] = NoteDoc(amount, series), ![o] = Credited(o, amount, whole)]
  /\ credits' = credits \union {<<o, c>>}
  /\ posting' = [posting EXCEPT
       ![c] = [receivable |-> -amount, advances |-> 0, revenue |-> amount]]
  /\ series' = series + 1
  /\ tx' = [tx EXCEPT ![t] = Idle]
  /\ UNCHANGED <<applied, manual, bank>>

\* What a credit note finds when it commits, and what it writes.
LEMMA CreditFacts ==
  ASSUME IInv, NEW t \in Txns, CommitCredit(t)
  PROVE  CreditWrites(t, tx[t].target, tx[t].note, tx[t].amount, tx[t].whole)
<1>1. TypeOK /\ CreditInv(t) /\ tx[t].op = "credit" /\ tx[t].todo = <<>>
  BY DEF IInv, TxInv, CommitCredit, Ready
<1>2. tx[t].amount \in Nat /\ tx[t].whole \in BOOLEAN
  BY <1>1, TxFields
<1>3. tx[t].number = series
  BY <1>1 DEF CreditInv
<1>4. tx[t].target # tx[t].note
  BY <1>1 DEF CreditInv
<1>. QED
  BY <1>1, <1>2, <1>3, <1>4 DEF CreditWrites, CreditInv, CommitCredit, CanCredit, NoteDoc, Moved

\* A reconciliation that commits has one allocation.
ReconcileWrites(t, b, x) ==
  /\ b \in Banks /\ b \in tx[t].held /\ bank[b].status # "POSTED"
  /\ bank[b].allocations \in Seq(Allocation) /\ Len(bank[b].allocations) = 1
  /\ x = bank[b].allocations[1] /\ x \in Allocation /\ x.amount \in Nat /\ x.amount > 0
  /\ x.target # NoDoc => /\ x.target \in Docs /\ x.target \in tx[t].held
                         /\ doc[x.target].status = "ISSUED"
  /\ doc' = IF x.target = NoDoc THEN doc
            ELSE [doc EXCEPT ![x.target] = Paid(x.target, x.amount)]
  /\ bank' = [bank EXCEPT ![b].status = "POSTED"]
  /\ tx' = [tx EXCEPT ![t] = Idle]
  /\ UNCHANGED <<applied, credits, posting, series, manual>>

\* What a reconciliation finds when it commits, and what it writes.
LEMMA ReconcileFacts ==
  ASSUME IInv, NEW t \in Txns, CommitReconcile(t)
  PROVE  ReconcileWrites(t, tx[t].target, bank[tx[t].target].allocations[1])
<1> DEFINE b == tx[t].target
           s == bank[b].allocations
           x == s[1]
<1>1. TypeOK /\ ReconcileInv(t) /\ tx[t].op = "reconcile" /\ tx[t].todo = <<>>
  BY DEF IInv, TxInv, CommitReconcile, Ready
<1>2. /\ b \in Banks /\ b \in tx[t].held /\ bank[b].status # "POSTED" /\ s # <<>>
  BY <1>1 DEF ReconcileInv
<1>3. s \in Seq(Allocation) /\ ~(Len(s) > 1)
  BY <1>1, <1>2 DEF TypeOK, CommitReconcile, DuplicateLink
<1>4. Len(s) = 1 /\ Head(s) = x /\ 1 \in DOMAIN s
  <2>1. s \in Seq(Allocation) /\ s # <<>> /\ ~(Len(s) > 1)
    BY <1>2, <1>3
  <2>. HIDE DEF s
  <2>. QED  BY <2>1, SingleElement
<1>5. x \in Allocation /\ x.amount \in Nat /\ x.amount > 0
  BY <1>3, <1>4, AllocationsNat, ElementType
<1>6. x.target # NoDoc => x.target \in Docs /\ x.target \in tx[t].held /\ doc[x.target].status = "ISSUED"
  <2>1. Len(tx[t].todo) = 0
    BY <1>1
  <2>2. 1 < Len(s) + 1 - Len(tx[t].todo)
    BY <1>4, <2>1
  <2>3. x.target # NoDoc => x.target \in tx[t].held /\ doc[x.target].status = "ISSUED"
    BY <1>1, <1>4, <2>2 DEF ReconcileInv
  <2>. QED
    BY <1>5, <2>3 DEF Allocation
<1>7. /\ doc' = IF x.target = NoDoc THEN doc
                ELSE [doc EXCEPT ![x.target] = Paid(x.target, x.amount)]
      /\ bank' = [bank EXCEPT ![b].status = "POSTED"]
      /\ tx' = [tx EXCEPT ![t] = Idle]
      /\ UNCHANGED <<applied, credits, posting, series, manual>>
  BY <1>4 DEF CommitReconcile, Moved
<1>. QED
  BY <1>2, <1>3, <1>4, <1>5, <1>6, <1>7 DEF ReconcileWrites

\* The commits keep the shapes.
LEMMA CommitType ==
  ASSUME IInv, NEW t \in Txns, CommitIssue(t) \/ CommitCredit(t) \/ CommitReconcile(t)
  PROVE  TypeOK'
<1>0. TypeOK
  BY DEF IInv
<1>1. ASSUME CommitIssue(t) PROVE TypeOK'
  <2> DEFINE d == tx[t].target
             plan == tx[t].plan
  <2>0. /\ d \in Docs /\ plan \in Seq(Use) /\ SumOf(plan) \in Nat
        /\ doc' = [doc EXCEPT ![d] = doc'[d]] /\ doc'[d] \in Doc
        /\ applied' = [p \in Docs \X Docs |->
                         IF p[2] = d THEN UsedOf(plan, p[1]) ELSE applied[p]]
        /\ posting' = [posting EXCEPT ![d] = IssuePosting(d, SumOf(plan))]
        /\ series' = series + 1
        /\ tx' = [tx EXCEPT ![t] = Idle]
        /\ UNCHANGED <<credits, manual, bank>>
    BY <1>1, IssueFacts DEF IssueWrites
  <2>1. doc' \in [Docs -> Doc]
    BY <1>0, <2>0 DEF TypeOK
  <2>2. applied' \in [Docs \X Docs -> Nat]
    <3>1. \A a : UsedOf(plan, a) \in Nat
      BY <2>0, UsedOfNat
    <3>. QED
      BY <1>0, <2>0, <3>1 DEF TypeOK
  <2>3. posting' \in [Docs -> Posting]
    <3>1. IssuePosting(d, SumOf(plan)) \in Posting
      <4>1. doc[d].total \in Nat /\ SumOf(plan) \in Nat
        BY <1>0, <2>0 DEF TypeOK, Doc
      <4>. QED
        BY <4>1 DEF IssuePosting, Posting
    <3>. QED
      BY <1>0, <2>0, <3>1 DEF TypeOK
  <2>4. tx' \in [Txns -> Tx] /\ series' \in Nat
    BY <1>0, <2>0, IdleType DEF TypeOK
  <2>. QED
    BY <1>0, <2>0, <2>1, <2>2, <2>3, <2>4 DEF TypeOK
<1>2. ASSUME CommitCredit(t) PROVE TypeOK'
  <2> DEFINE o == tx[t].target
             c == tx[t].note
             amount == tx[t].amount
             whole == tx[t].whole
  <2>1. /\ o \in Docs /\ c \in Docs /\ amount \in Nat /\ whole \in BOOLEAN /\ tx' = [tx EXCEPT ![t] = Idle]
        /\ doc' = [doc EXCEPT ![c] = NoteDoc(amount, series), ![o] = Credited(o, amount, whole)]
        /\ credits' = credits \union {<<o, c>>}
        /\ posting' = [posting EXCEPT
             ![c] = [receivable |-> -amount, advances |-> 0, revenue |-> amount]]
        /\ series' = series + 1
        /\ UNCHANGED <<applied, manual, bank>>
    BY <1>2, CreditFacts DEF CreditWrites
  <2>2. NoteDoc(amount, series) \in Doc /\ Credited(o, amount, whole) \in Doc
    <3>1. NoteDoc(amount, series) \in Doc
      BY <1>0, <2>1, NoteDocType DEF TypeOK
    <3>2. o \in Docs /\ amount \in Nat /\ whole \in BOOLEAN
      BY <2>1
    <3>. HIDE DEF o, amount, whole
    <3>3. Credited(o, amount, whole) \in Doc
      BY <1>0, <3>2, CreditedType, Zenon
    <3>. QED
      BY <3>1, <3>3
  <2>3. [receivable |-> -amount, advances |-> 0, revenue |-> amount] \in Posting
    BY <2>1 DEF Posting
  <2>4. doc' \in [Docs -> Doc]
    <3>. HIDE DEF o, c, amount, whole
    <3>. QED  BY <1>0, <2>1, <2>2 DEF TypeOK
  <2>5. posting' \in [Docs -> Posting]
    <3>. HIDE DEF o, c, amount
    <3>. QED  BY <1>0, <2>1, <2>3 DEF TypeOK
  <2>6. credits' \in SUBSET (Docs \X Docs)
    BY <1>0, <2>1 DEF TypeOK
  <2>7. tx' \in [Txns -> Tx] /\ series' \in Nat
    BY <1>0, <2>1, IdleType DEF TypeOK
  <2>. QED
    BY <1>0, <2>1, <2>4, <2>5, <2>6, <2>7 DEF TypeOK
<1>3. ASSUME CommitReconcile(t) PROVE TypeOK'
  <2> DEFINE b == tx[t].target
             x == bank[b].allocations[1]
             B == [status : BankStatus, allocations : Seq(Allocation)]
  <2>0. /\ b \in Banks /\ x \in Allocation /\ x.amount \in Nat
        /\ x.target # NoDoc => x.target \in Docs
        /\ doc' = IF x.target = NoDoc THEN doc
                  ELSE [doc EXCEPT ![x.target] = Paid(x.target, x.amount)]
        /\ bank' = [bank EXCEPT ![b].status = "POSTED"]
        /\ tx' = [tx EXCEPT ![t] = Idle]
        /\ UNCHANGED <<applied, credits, posting, series, manual>>
    BY <1>3, ReconcileFacts DEF ReconcileWrites
  <2>1. doc' \in [Docs -> Doc]
    <3>1. CASE x.target = NoDoc
      BY <1>0, <2>0, <3>1 DEF TypeOK
    <3>2. CASE x.target # NoDoc
      <4>1. Paid(x.target, x.amount) \in Doc
        BY <1>0, <2>0, <3>2, PaidType
      <4>. QED
        <5>. HIDE DEF x
        <5>. QED  BY <1>0, <2>0, <3>2, <4>1 DEF TypeOK
    <3>. QED
      BY <3>1, <3>2
  <2>2. bank' \in [Banks -> B]
    <3>1. [bank[b] EXCEPT !.status = "POSTED"] \in B
      BY <1>0, <2>0 DEF TypeOK, BankStatus
    <3>. HIDE DEF B, b
    <3>. QED
      BY <1>0, <2>0, <3>1 DEF TypeOK, B
  <2>3. tx' \in [Txns -> Tx]
    BY <1>0, <2>0, IdleType DEF TypeOK
  <2>. QED
    BY <1>0, <2>0, <2>1, <2>2, <2>3 DEF TypeOK
<1>. QED
  BY <1>1, <1>2, <1>3

(***************************************************************************)
(* What an open transaction relies on is in the rows it holds.             *)
(***************************************************************************)

\* What a transaction relies on: the rows it holds stay as they are.
Frame(u) ==
  /\ tx'[u] = tx[u]
  /\ \A d \in Docs : d \in tx[u].held =>
       /\ doc'[d] = doc[d] /\ AppliedFrom(d)' = AppliedFrom(d)
       /\ NotesOf(d)' = NotesOf(d)
  /\ \A b \in Banks : b \in tx[u].held => bank'[b] = bank[b]
  /\ Books \in tx[u].held => series' = series

TxInvOf(u) == IdleInv(u) /\ IssueInv(u) /\ CreditInv(u) /\ ReconcileInv(u)

\* A transaction whose frame a step keeps relies on what it relied on before.
LEMMA FrameKeeps ==
  ASSUME TypeOK, NEW u \in Txns, TxInvOf(u), Frame(u)
  PROVE  TxInvOf(u)'
<1> DEFINE x == tx[u]
<1>1. tx'[u] = x /\ x.plan \in Seq(Use)
  BY TxFields DEF Frame
<1>2. IdleInv(u)'
  BY <1>1 DEF TxInvOf, IdleInv
<1>3. IssueInv(u)'
  <2>1. SUFFICES ASSUME x.op = "issue" PROVE IssueInv(u)'
    BY <1>1 DEF IssueInv
  <2>2. x.target \in Docs /\ doc'[x.target] = doc[x.target]
    BY <2>1 DEF TxInvOf, IssueInv, Frame
  <2>3. \A k \in DOMAIN x.plan : x.plan[k].advance \in Docs
    <3>1. \A p \in Use : p.advance \in Docs
      BY DEF Use
    <3>. QED
      BY <1>1, <3>1, ElementType
  <2>4. \A k \in DOMAIN x.plan :
          x.plan[k].advance \in x.held /\ Usable(x.plan[k]) => Usable(x.plan[k])'
    BY <2>3 DEF Usable, Frame
  <2>5. Books \in x.held => series' = series
    BY DEF Frame
  <2>6. Issuable(u) => Issuable(u)'
    BY <1>1, <2>2 DEF Issuable
  <2>. QED
    BY <1>1, <2>1, <2>2, <2>4, <2>5, <2>6 DEF TxInvOf, IssueInv
<1>4. CreditInv(u)'
  <2>1. SUFFICES ASSUME x.op = "credit" PROVE CreditInv(u)'
    BY <1>1 DEF CreditInv
  <2>2. /\ doc'[x.target] = doc[x.target] /\ doc'[x.note] = doc[x.note]
        /\ NotesOf(x.target)' = NotesOf(x.target)
    BY <2>1 DEF TxInvOf, CreditInv, Frame
  <2>3. Books \in x.held => series' = series
    BY DEF Frame
  <2>. QED
    BY <1>1, <2>1, <2>2, <2>3 DEF TxInvOf, CreditInv, Creditable
<1>5. ReconcileInv(u)'
  <2>1. SUFFICES ASSUME x.op = "reconcile" PROVE ReconcileInv(u)'
    BY <1>1 DEF ReconcileInv
  <2> DEFINE s == bank[x.target].allocations
  <2>2. x.target \in Banks /\ bank'[x.target] = bank[x.target]
    BY <2>1 DEF TxInvOf, ReconcileInv, Frame
  <2>3. s \in Seq(Allocation)
    BY <2>2 DEF TypeOK
  <2>4. \A k \in DOMAIN s : s[k].target # NoDoc => s[k].target \in Docs
    <3>1. \A p \in Allocation : p.target # NoDoc => p.target \in Docs
      BY DEF Allocation
    <3>. QED
      BY <2>3, <3>1, ElementType
  <2>5. \A d \in Docs : d \in x.held => doc'[d] = doc[d]
    BY DEF Frame
  <2>6. /\ x.target \in x.held /\ bank[x.target].status # "POSTED" /\ s # <<>>
        /\ Len(s) + 1 - Len(x.todo) >= 0
        /\ \A i \in DOMAIN x.todo :
             x.todo[i] = IF Len(s) + 1 - Len(x.todo) + i = 1 THEN Books
                         ELSE s[Len(s) + 1 - Len(x.todo) + i - 1].target
        /\ \A k \in DOMAIN s :
             k < Len(s) + 1 - Len(x.todo) /\ s[k].target # NoDoc =>
               s[k].target \in x.held /\ doc[s[k].target].status = "ISSUED"
    BY <2>1 DEF TxInvOf, ReconcileInv
  <2>7. \A k \in DOMAIN s :
          k < Len(s) + 1 - Len(x.todo) /\ s[k].target # NoDoc =>
            s[k].target \in x.held /\ doc'[s[k].target].status = "ISSUED"
    BY <2>4, <2>5, <2>6
  <2>. QED
    <3>. HIDE DEF x
    <3>. QED  BY <1>1, <2>2, <2>6, <2>7 DEF ReconcileInv
<1>. QED
  BY <1>2, <1>3, <1>4, <1>5 DEF TxInvOf

\* The transaction that moves takes only rows that no other holds.
LEMMA LocksMoved ==
  ASSUME TypeOK, LocksApart, NEW t \in Txns, NEW next \in Tx, Moved(t, next),
         \A u \in Txns \ {t} : next.held \intersect tx[u].held = {}
  PROVE  LocksApart'
<1>1. \A u \in Txns : tx'[u] = IF u = t THEN next ELSE tx[u]
  BY DEF TypeOK, Moved
<1>. QED
  BY <1>1 DEF LocksApart

\* A transaction that is closed holds nothing.
LEMMA IdleFields == Idle.op = "none" /\ Idle.held = {}
BY DEF Idle

\* A transaction that ends relies on nothing.
LEMMA IdleKeeps ==
  ASSUME NEW t \in Txns, tx'[t] = Idle
  PROVE  TxInvOf(t)'
BY IdleFields DEF TxInvOf, IdleInv, IssueInv, CreditInv, ReconcileInv

\* An open transaction moves and the tables stay.
LEMMA MoveFrame ==
  ASSUME TypeOK, NEW t \in Txns, NEW next, Moved(t, next), NEW u \in Txns \ {t},
         UNCHANGED <<doc, applied, credits, posting, series, manual, bank>>
  PROVE  Frame(u)
<1>1. tx'[u] = tx[u]
  BY DEF TypeOK, Moved
<1>2. \A d \in Docs : AppliedFrom(d)' = AppliedFrom(d) /\ NotesOf(d)' = NotesOf(d)
  BY DEF AppliedFrom, NotesOf
<1>. QED
  BY <1>1, <1>2 DEF Frame

\* A transaction that begins locks rows nobody holds, and has found what it relies on.
LEMMA BeginKeeps ==
  ASSUME IInv, NEW t \in Txns, Begin(t)
  PROVE  LocksApart' /\ TxInvOf(t)' /\ \A u \in Txns \ {t} : Frame(u)
<1>0. TypeOK /\ LocksApart
  BY DEF IInv
<1>1. ASSUME NEW d \in Docs, NEW plan \in Plans, BeginIssue(t, d, plan)
      PROVE  LocksApart' /\ TxInvOf(t)' /\ \A u \in Txns \ {t} : Frame(u)
  <2> DEFINE used == IF doc[d].kind = "ADVANCE_INVOICE" THEN <<>> ELSE plan
             x == IssueTx(d, used)
  <2>1. used \in Seq(Use)
    <3>1. plan \in Seq(Use) /\ <<>> \in Seq(Use)
      BY SettlementAssumption
    <3>. QED
      BY <3>1
  <2>2. /\ Moved(t, x) /\ doc[d].status = "DRAFT" /\ Unlocked(d)
        /\ UNCHANGED <<doc, applied, credits, posting, series, manual, bank>>
    BY <1>1 DEF BeginIssue, IssueTx
  <2>3. /\ x \in Tx /\ x.op = "issue" /\ x.target = d /\ x.held = {d} /\ x.plan = used
        /\ Len(x.todo) = Len(used) + 1
        /\ \A i \in 1 .. Len(used) + 1 :
             x.todo[i] = IF i = Len(used) + 1 THEN Books ELSE used[i].advance
    <3>. HIDE DEF used
    <3>. QED  BY <2>1, IssueTxType
  <2>4. tx'[t] = x
    BY <1>0, <2>2 DEF TypeOK, Moved
  <2>5. TxInvOf(t)'
    <3>1. Len(used) \in Nat /\ DOMAIN used = 1 .. Len(used) /\ Len(x.todo) \in Nat
          /\ DOMAIN x.todo = 1 .. Len(x.todo)
      BY <2>1, <2>3, ElementType DEF Tx
    <3>2. doc[d].kind = "ADVANCE_INVOICE" => used = <<>>
      OBVIOUS
    <3>3. x.todo # <<>>
      BY <2>3, <3>1
    <3>. HIDE DEF x, used
    <3>4. IdleInv(t)' /\ CreditInv(t)' /\ ReconcileInv(t)'
      BY <2>3, <2>4 DEF IdleInv, CreditInv, ReconcileInv
    <3>5. Len(used) + 1 - Len(x.todo) = 0 /\ \A k \in DOMAIN used : ~(k <= 0)
      BY <2>3, <3>1
    <3>6. IssueInv(t)'
      <4>1. \A i \in DOMAIN x.todo :
              x.todo[i] = IF Len(used) + 1 - Len(x.todo) + i = Len(used) + 1 THEN Books
                          ELSE used[Len(used) + 1 - Len(x.todo) + i].advance
        BY <2>3, <3>1
      <4>2. d \in Docs /\ d \in {d} /\ doc'[d].status = "DRAFT"
            /\ (doc'[d].kind = "ADVANCE_INVOICE" => used = <<>>)
        BY <2>2, <3>2
      <4>3. Len(used) + 1 - Len(x.todo) >= 0
            /\ \A k \in DOMAIN used : ~(k <= Len(used) + 1 - Len(x.todo))
        <5> DEFINE n == Len(used) m == Len(x.todo)
        <5>1. n \in Nat /\ m = n + 1 /\ DOMAIN used = 1 .. n
          BY <2>3, <3>1
        <5>. HIDE DEF n, m
        <5>2. n + 1 - m >= 0 /\ \A k \in DOMAIN used : ~(k <= n + 1 - m)
          BY <5>1
        <5>. QED
          BY <5>2 DEF n, m
      <4>. QED
        BY <2>3, <2>4, <3>3, <4>1, <4>2, <4>3 DEF IssueInv
    <3>. QED
      BY <3>4, <3>6 DEF TxInvOf
  <2>6. LocksApart'
    <3>1. \A u \in Txns \ {t} : x.held \intersect tx[u].held = {}
      BY <2>2, <2>3 DEF Unlocked
    <3>. HIDE DEF x
    <3>. QED  BY <1>0, <2>2, <2>3, <3>1, LocksMoved
  <2>. QED
    <3>. HIDE DEF x
    <3>. QED  BY <1>0, <2>2, <2>5, <2>6, MoveFrame
<1>2. ASSUME NEW o \in Docs, NEW c \in Docs, NEW amount \in Amounts, NEW whole \in BOOLEAN,
             BeginCredit(t, o, c, amount, whole)
      PROVE  LocksApart' /\ TxInvOf(t)' /\ \A u \in Txns \ {t} : Frame(u)
  <2> DEFINE x == CreditTx(o, c, amount, whole)
  <2>1. amount \in Nat /\ amount > 0
    BY SettlementAssumption
  <2>2. /\ Moved(t, x) /\ doc[o].status = "ISSUED" /\ Unlocked(o)
        /\ doc[c].status = "ABSENT" /\ Unlocked(c)
        /\ IF whole THEN NotesOf(o) = {} ELSE amount <= Creditable(o)
        /\ UNCHANGED <<doc, applied, credits, posting, series, manual, bank>>
    BY <1>2 DEF BeginCredit, CreditTx
  <2>3. /\ x \in Tx /\ x.op = "credit" /\ x.target = o /\ x.note = c
        /\ x.held = {o, c} /\ x.amount = amount /\ x.whole = whole /\ x.todo = <<Books>>
    BY <2>1, CreditTxType
  <2>4. tx'[t] = x
    BY <1>0, <2>2 DEF TypeOK, Moved
  <2>5. TxInvOf(t)'
    <3>1. x.todo # <<>>
      BY <2>3
    <3>2. Creditable(o)' = Creditable(o) /\ NotesOf(o)' = NotesOf(o)
      BY <2>2 DEF Creditable, NotesOf
    <3>. HIDE DEF x
    <3>. QED
      BY <2>1, <2>2, <2>3, <2>4, <3>1, <3>2
      DEF TxInvOf, IdleInv, IssueInv, CreditInv, ReconcileInv
  <2>6. LocksApart'
    <3>1. \A u \in Txns \ {t} : x.held \intersect tx[u].held = {}
      BY <2>2, <2>3 DEF Unlocked
    <3>. HIDE DEF x
    <3>. QED  BY <1>0, <2>2, <2>3, <3>1, LocksMoved
  <2>. QED
    <3>. HIDE DEF x
    <3>. QED  BY <1>0, <2>2, <2>5, <2>6, MoveFrame
<1>3. ASSUME NEW b \in Banks, BeginReconcile(t, b)
      PROVE  LocksApart' /\ TxInvOf(t)' /\ \A u \in Txns \ {t} : Frame(u)
  <2> DEFINE x == ReconcileTx(b)
             s == bank[b].allocations
  <2>1. s \in Seq(Allocation)
    BY <1>0 DEF TypeOK
  <2>2. /\ Moved(t, x) /\ bank[b].status # "POSTED" /\ s # <<>> /\ Unlocked(b)
        /\ UNCHANGED <<doc, applied, credits, posting, series, manual, bank>>
    BY <1>3 DEF BeginReconcile, ReconcileTx
  <2>3. /\ x \in Tx /\ x.op = "reconcile" /\ x.target = b /\ x.held = {b}
        /\ Len(x.todo) = Len(s) + 1
        /\ \A i \in 1 .. Len(s) + 1 :
             x.todo[i] = IF i = 1 THEN Books ELSE s[i - 1].target
    BY <1>0, ReconcileTxType
  <2>4. tx'[t] = x
    BY <1>0, <2>2 DEF TypeOK, Moved
  <2>5. TxInvOf(t)'
    <3>1. Len(s) \in Nat /\ DOMAIN s = 1 .. Len(s) /\ Len(x.todo) \in Nat
          /\ DOMAIN x.todo = 1 .. Len(x.todo)
      BY <2>1, <2>3, ElementType DEF Tx
    <3>2. x.todo # <<>>
      BY <2>3, <3>1
    <3>3. bank' = bank /\ \A k \in DOMAIN s : ~(k < 0)
      BY <2>2, <3>1
    <3>4. bank'[b].allocations = s /\ bank'[b].status # "POSTED"
      BY <2>2, <3>3
    <3>. HIDE DEF x, s
    <3>5. IdleInv(t)' /\ CreditInv(t)' /\ IssueInv(t)'
      BY <2>3, <2>4 DEF IdleInv, CreditInv, IssueInv
    <3>6. Len(s) + 1 - Len(x.todo) = 0
      BY <2>3, <3>1
    <3>8. ReconcileInv(t)'
      <4>1. \A i \in DOMAIN x.todo :
            x.todo[i] = IF Len(s) + 1 - Len(x.todo) + i = 1 THEN Books
                        ELSE s[Len(s) + 1 - Len(x.todo) + i - 1].target
        BY <2>3, <3>1
      <4>2. b \in Banks /\ b \in {b} /\ s # <<>>
        BY <2>2
      <4>3. Len(s) + 1 - Len(x.todo) >= 0
            /\ \A k \in DOMAIN s : ~(k < Len(s) + 1 - Len(x.todo))
        <5> DEFINE n == Len(s) m == Len(x.todo)
        <5>1. n \in Nat /\ m = n + 1 /\ DOMAIN s = 1 .. n
          BY <2>3, <3>1
        <5>. HIDE DEF n, m
        <5>2. n + 1 - m >= 0 /\ \A k \in DOMAIN s : ~(k < n + 1 - m)
          BY <5>1
        <5>. QED
          BY <5>2 DEF n, m
      <4>. QED
        BY <2>3, <2>4, <3>3, <3>4, <4>1, <4>2, <4>3 DEF ReconcileInv
    <3>. QED
      BY <3>5, <3>8 DEF TxInvOf
  <2>6. LocksApart'
    <3>1. \A u \in Txns \ {t} : x.held \intersect tx[u].held = {}
      BY <2>2, <2>3 DEF Unlocked
    <3>. HIDE DEF x
    <3>. QED  BY <1>0, <2>2, <2>3, <3>1, LocksMoved
  <2>. QED
    <3>. HIDE DEF x
    <3>. QED  BY <1>0, <2>2, <2>5, <2>6, MoveFrame
<1>. QED
  BY <1>1, <1>2, <1>3 DEF Begin

(***************************************************************************)
(* Locks, refusals and ends.                                               *)
(***************************************************************************)

\* The first element of a sequence and the others.
LEMMA TailFacts ==
  ASSUME NEW R, NEW seq \in Seq(R), seq # <<>>
  PROVE  /\ Len(seq) \in Nat /\ Len(seq) > 0 /\ Head(seq) = seq[1] /\ seq[1] \in R
         /\ DOMAIN seq = 1 .. Len(seq)
         /\ Tail(seq) \in Seq(R) /\ Len(Tail(seq)) = Len(seq) - 1
         /\ DOMAIN Tail(seq) = 1 .. Len(seq) - 1
         /\ \A i \in 1 .. Len(seq) - 1 : Tail(seq)[i] = seq[i + 1]
         /\ Tail(seq) = <<>> => Len(seq) = 1
<1>1. Len(seq) \in Nat /\ Len(seq) > 0
  BY EmptySeq
<1>2. /\ Head(seq) = seq[1] /\ seq[1] \in R /\ DOMAIN seq = 1 .. Len(seq)
  BY <1>1
<1>3. Tail(seq) \in Seq(R) /\ Len(Tail(seq)) = Len(seq) - 1
  BY <1>1
<1>4. \A i \in 1 .. Len(seq) - 1 : Tail(seq)[i] = seq[i + 1]
  BY <1>1
<1>5. DOMAIN Tail(seq) = 1 .. Len(seq) - 1
  BY <1>3, ElementType
<1>6. Tail(seq) = <<>> => Len(seq) = 1
  <2>1. Tail(seq) = <<>> => Len(Tail(seq)) = 0
    BY EmptySeq
  <2>. QED
    BY <1>1, <1>3, <2>1
<1>. QED
  BY <1>1, <1>2, <1>3, <1>4, <1>5, <1>6

LockTx(t) ==
  [tx[t] EXCEPT
     !.todo = Tail(@), !.held = @ \union ({Head(tx[t].todo)} \ {NoDoc}),
     !.number = IF Head(tx[t].todo) = Books /\ tx[t].op # "reconcile" THEN series ELSE @]

\* What a lock changes of the transaction that takes it.
LEMMA LockFacts ==
  ASSUME TypeOK, NEW t \in Txns, Lock(t)
  PROVE  LET x == LockTx(t)
             r == tx[t].todo[1]
         IN  /\ x \in Tx /\ Moved(t, x) /\ tx'[t] = x
             /\ tx[t].todo # <<>> /\ r = Head(tx[t].todo)
             /\ r \in Docs \union {Books, NoDoc} /\ FreeFor(t, r) /\ Passes(t)
             /\ x.op = tx[t].op /\ x.target = tx[t].target /\ x.plan = tx[t].plan
             /\ x.amount = tx[t].amount /\ x.note = tx[t].note /\ x.whole = tx[t].whole
             /\ x.held = tx[t].held \union ({r} \ {NoDoc})
             /\ x.todo = Tail(tx[t].todo)
             /\ r = Books /\ tx[t].op # "reconcile" => x.number = series
             /\ UNCHANGED <<doc, applied, credits, posting, series, manual, bank>>
<1> DEFINE s == tx[t].todo
           r == s[1]
           n == IF r = Books /\ tx[t].op # "reconcile" THEN series ELSE tx[t].number
           R == Docs \union {Books, NoDoc}
<1>1. tx[t] \in Tx /\ s \in Seq(R) /\ s # <<>>
  BY TxFields DEF Lock
<1>2. r = Head(s) /\ r \in R /\ Tail(s) \in Seq(R)
  <2>. HIDE DEF R
  <2>. QED  BY <1>1, TailFacts
<1>3. n \in Nat /\ tx[t].held \union ({r} \ {NoDoc}) \in SUBSET (Docs \union Banks \union {Books})
  BY <1>1, <1>2 DEF TypeOK, Tx
<1>4. LockTx(t) = [tx[t] EXCEPT !.todo = Tail(s), !.held = @ \union ({r} \ {NoDoc}), !.number = n]
  BY <1>2 DEF LockTx
<1>5. LET x == LockTx(t)
      IN  /\ x \in Tx
          /\ x.op = tx[t].op /\ x.target = tx[t].target /\ x.plan = tx[t].plan
          /\ x.amount = tx[t].amount /\ x.note = tx[t].note /\ x.whole = tx[t].whole
          /\ x.held = tx[t].held \union ({r} \ {NoDoc})
          /\ x.todo = Tail(s) /\ x.number = n
  <2>. HIDE DEF n, r
  <2>. QED  BY <1>1, <1>2, <1>3, <1>4 DEF Tx
<1>6. Moved(t, LockTx(t)) /\ FreeFor(t, r) /\ Passes(t)
      /\ UNCHANGED <<doc, applied, credits, posting, series, manual, bank>>
  BY <1>2 DEF Lock, LockTx
<1>7. tx'[t] = LockTx(t)
  BY <1>6 DEF TypeOK, Moved
<1>. QED
  BY <1>1, <1>2, <1>5, <1>6, <1>7

\* An issue that locks an advance has found it usable, and stays as it was.
LEMMA LockIssue ==
  ASSUME IInv, NEW t \in Txns, Lock(t), tx[t].op = "issue"
  PROVE  IssueInv(t)'
<1> DEFINE x == LockTx(t)
           s == tx[t].todo
           r == s[1]
           plan == tx[t].plan
           n == Len(plan)
           m == Len(s)
           d == tx[t].target
<1>1. TypeOK /\ IssueInv(t)
  BY DEF IInv, TxInv
<1>2. /\ d \in Docs /\ d \in tx[t].held /\ doc[d].status = "DRAFT"
      /\ doc[d].kind = "ADVANCE_INVOICE" => plan = <<>>
      /\ n + 1 - m >= 0
      /\ \A i \in DOMAIN s :
           s[i] = IF n + 1 - m + i = n + 1 THEN Books ELSE plan[n + 1 - m + i].advance
      /\ \A k \in DOMAIN plan :
           k <= n + 1 - m => plan[k].advance \in tx[t].held /\ Usable(plan[k])
  BY <1>1 DEF IssueInv
<1>3. /\ x \in Tx /\ tx'[t] = x /\ s # <<>> /\ r = Head(s)
      /\ r \in Docs \union {Books, NoDoc} /\ Passes(t)
      /\ x.op = "issue" /\ x.target = d /\ x.plan = plan
      /\ x.held = tx[t].held \union ({r} \ {NoDoc})
      /\ x.todo = Tail(s)
      /\ r = Books => x.number = series
      /\ UNCHANGED <<doc, applied, credits, posting, series, manual, bank>>
  BY <1>1, LockFacts
<1>4. plan \in Seq(Use) /\ s \in Seq(Docs \union {Books, NoDoc})
  BY <1>1, TxFields
<1>5. /\ m \in Nat /\ m > 0 /\ DOMAIN s = 1 .. m
      /\ Len(Tail(s)) = m - 1 /\ DOMAIN Tail(s) = 1 .. m - 1
      /\ \A i \in 1 .. m - 1 : Tail(s)[i] = s[i + 1]
      /\ Tail(s) = <<>> => m = 1
  BY <1>3, <1>4, TailFacts
<1>6. n \in Nat /\ DOMAIN plan = 1 .. n /\ \A k \in 1 .. n : plan[k].advance \in Docs
  <2>1. \A p \in Use : p.advance \in Docs
    BY DEF Use
  <2>. QED
    BY <1>4, <2>1, ElementType
<1>7. r = IF n + 2 - m = n + 1 THEN Books ELSE plan[n + 2 - m].advance
  <2>. HIDE DEF n, m, s, plan
  <2>. QED  BY <1>2, <1>5, <1>6 DEF r
<1>8. NextUse(t) = plan[n + 2 - m]
  BY DEF NextUse
<1>9. n + 1 - (m - 1) >= 0
      /\ \A i \in DOMAIN Tail(s) :
           Tail(s)[i] = IF n + 1 - (m - 1) + i = n + 1 THEN Books
                        ELSE plan[n + 1 - (m - 1) + i].advance
  <2>. HIDE DEF n, m, s, plan
  <2>1. n + 1 - (m - 1) >= 0
    BY <1>2, <1>5, <1>6
  <2>2. ASSUME NEW i \in 1 .. m - 1
        PROVE  Tail(s)[i] = IF n + 1 - (m - 1) + i = n + 1 THEN Books
                            ELSE plan[n + 1 - (m - 1) + i].advance
    <3>1. i + 1 \in 1 .. m
      BY <1>5
    <3>2. n \in Nat /\ m \in Nat /\ i \in Int
      BY <1>5, <1>6
    <3>3. n + 1 - (m - 1) + i = n + 1 - m + (i + 1)
      BY <3>2
    <3>. QED
      BY <1>2, <1>5, <3>1, <3>3
  <2>. QED
    BY <1>5, <2>1, <2>2
<1>10. \A k \in DOMAIN plan :
         k <= n + 1 - (m - 1) => plan[k].advance \in x.held /\ Usable(plan[k])'
  <2>1. SUFFICES ASSUME NEW k \in 1 .. n, k <= n + 1 - (m - 1)
                 PROVE  plan[k].advance \in x.held /\ Usable(plan[k])'
    BY <1>6
  <2>2. Usable(plan[k]) => Usable(plan[k])'
    BY <1>3 DEF Usable, AppliedFrom
  <2>3. CASE k <= n + 1 - m
    <3>. HIDE DEF n, m, s, plan, x
    <3>. QED  BY <1>2, <1>3, <1>6, <2>2, <2>3
  <2>4. CASE k = n + 2 - m
    <3>1. n + 2 - m # n + 1
      <4>. HIDE DEF n, m, s, plan
      <4>. QED  BY <1>5, <1>6, <2>1, <2>4
    <3>2. r = plan[k].advance
      BY <1>7, <2>4, <3>1
    <3>3. r \in Docs /\ r # Books /\ r # NoDoc
      BY <1>6, <3>2, SettlementAssumption
    <3>4. Usable(plan[k])
      BY <1>3, <1>8, <2>4, <3>3 DEF Passes
    <3>. QED
      BY <1>3, <2>2, <3>2, <3>3, <3>4
  <2>5. k <= n + 1 - m \/ k = n + 2 - m
    <3>. HIDE DEF n, m, s, plan
    <3>. QED  BY <1>5, <1>6, <2>1
  <2>. QED
    BY <2>3, <2>4, <2>5
<1>11. Tail(s) = <<>> => Books \in x.held /\ x.number = series /\ Issuable(t)
  <2>1. SUFFICES ASSUME m = 1 PROVE Books \in x.held /\ x.number = series /\ Issuable(t)
    BY <1>5
  <2>2. r = Books
    <3>1. n + 2 - m = n + 1
      BY <1>6, <2>1
    <3>. QED
      BY <1>7, <3>1
  <2>3. Issuable(t)
    BY <1>3, <2>2 DEF Passes
  <2>. QED
    BY <1>3, <2>2, <2>3, SettlementAssumption
<1>12. Issuable(t)' <=> Issuable(t)
  BY <1>3 DEF Issuable
<1>. QED
  <2>1. d \in x.held
    BY <1>2, <1>3
  <2>2. doc'[d].status = "DRAFT" /\ (doc'[d].kind = "ADVANCE_INVOICE" => plan = <<>>)
    BY <1>2, <1>3
  <2>3. Len(x.todo) = m - 1 /\ series' = series
    BY <1>3, <1>5
  <2>4. /\ tx'[t].target = d /\ tx'[t].plan = plan /\ tx'[t].todo = Tail(s)
        /\ tx'[t].held = x.held /\ tx'[t].number = x.number
    BY <1>3
  <2>5. Len(plan) + 1 - Len(Tail(s)) = n + 1 - (m - 1)
    BY <1>5
  <2>. HIDE DEF x, m, n
  <2>6. /\ Len(plan) + 1 - Len(Tail(s)) >= 0
        /\ \A i \in DOMAIN Tail(s) :
             Tail(s)[i] = IF Len(plan) + 1 - Len(Tail(s)) + i = Len(plan) + 1 THEN Books
                          ELSE plan[Len(plan) + 1 - Len(Tail(s)) + i].advance
        /\ \A k \in DOMAIN plan :
             k <= Len(plan) + 1 - Len(Tail(s)) => plan[k].advance \in x.held /\ Usable(plan[k])'
    BY <1>9, <1>10, <2>5 DEF n
  <2>7. /\ tx'[t].target \in Docs /\ tx'[t].target \in tx'[t].held
        /\ doc'[tx'[t].target].status = "DRAFT"
        /\ doc'[tx'[t].target].kind = "ADVANCE_INVOICE" => tx'[t].plan = <<>>
    BY <1>2, <2>1, <2>2, <2>4
  <2>8. /\ Len(tx'[t].plan) + 1 - Len(tx'[t].todo) >= 0
        /\ \A i \in DOMAIN tx'[t].todo :
             tx'[t].todo[i] =
               IF Len(tx'[t].plan) + 1 - Len(tx'[t].todo) + i = Len(tx'[t].plan) + 1
               THEN Books ELSE tx'[t].plan[Len(tx'[t].plan) + 1 - Len(tx'[t].todo) + i].advance
    BY <2>4, <2>6
  <2>9. \A k \in DOMAIN tx'[t].plan :
          k <= Len(tx'[t].plan) + 1 - Len(tx'[t].todo) =>
            tx'[t].plan[k].advance \in tx'[t].held /\ Usable(tx[t].plan[k])'
    BY <2>4, <2>6
  <2>10. tx'[t].todo = <<>> =>
           Books \in tx'[t].held /\ tx'[t].number = series' /\ Issuable(t)'
    BY <1>11, <1>12, <2>3, <2>4
  <2>. QED
    BY <2>7, <2>8, <2>9, <2>10 DEF IssueInv

\* A credit note that locks the books draws the next number.
LEMMA LockCredit ==
  ASSUME IInv, NEW t \in Txns, Lock(t), tx[t].op = "credit"
  PROVE  CreditInv(t)'
<1> DEFINE x == LockTx(t)
           s == tx[t].todo
           o == tx[t].target
           c == tx[t].note
<1>1. TypeOK /\ CreditInv(t)
  BY DEF IInv, TxInv
<1>2. /\ o \in Docs /\ c \in Docs /\ o \in tx[t].held /\ c \in tx[t].held
      /\ doc[o].status = "ISSUED" /\ doc[c].status = "ABSENT"
      /\ tx[t].amount > 0
      /\ IF tx[t].whole THEN NotesOf(o) = {} ELSE tx[t].amount <= Creditable(o)
      /\ s \in {<<>>, <<Books>>}
  BY <1>1 DEF CreditInv
<1>3. /\ tx'[t] = x /\ s # <<>> /\ s[1] = Head(s)
      /\ x.op = "credit" /\ x.target = o /\ x.note = c /\ x.amount = tx[t].amount
      /\ x.whole = tx[t].whole
      /\ x.held = tx[t].held \union ({s[1]} \ {NoDoc})
      /\ x.todo = Tail(s)
      /\ s[1] = Books => x.number = series
      /\ UNCHANGED <<doc, applied, credits, posting, series, manual, bank>>
  BY <1>1, LockFacts
<1>4. s[1] = Books /\ Tail(s) = <<>>
  <2>1. s = <<Books>>
    BY <1>2, <1>3
  <2>. QED
    BY <2>1
<1>5. Books \in x.held /\ o \in x.held /\ c \in x.held
  BY <1>2, <1>3, <1>4, SettlementAssumption
<1>6. Creditable(o)' = Creditable(o)
  BY <1>3 DEF Creditable
<1>7. /\ tx'[t].target = o /\ tx'[t].note = c /\ tx'[t].held = x.held
      /\ tx'[t].amount = tx[t].amount /\ tx'[t].whole = tx[t].whole
      /\ tx'[t].todo = <<>> /\ tx'[t].number = series
  BY <1>3, <1>4
<1>8. Creditable(tx[t].target)' = Creditable(o) /\ NotesOf(tx[t].target)' = NotesOf(o)
  BY <1>3, <1>7 DEF Creditable, NotesOf
<1>. QED
  <2>. HIDE DEF x
  <2>. QED  BY <1>2, <1>3, <1>5, <1>7, <1>8 DEF CreditInv

\* A reconciliation that locks an invoice has found it issued.
LEMMA LockReconcile ==
  ASSUME IInv, NEW t \in Txns, Lock(t), tx[t].op = "reconcile"
  PROVE  ReconcileInv(t)'
<1> DEFINE x == LockTx(t)
           s == tx[t].todo
           r == s[1]
           b == tx[t].target
           a == bank[b].allocations
           n == Len(a)
           m == Len(s)
<1>1. TypeOK /\ ReconcileInv(t)
  BY DEF IInv, TxInv
<1>2. /\ b \in Banks /\ b \in tx[t].held /\ bank[b].status # "POSTED" /\ a # <<>>
      /\ n + 1 - m >= 0
      /\ \A i \in DOMAIN s :
           s[i] = IF n + 1 - m + i = 1 THEN Books ELSE a[n + 1 - m + i - 1].target
      /\ \A k \in DOMAIN a :
           k < n + 1 - m /\ a[k].target # NoDoc =>
             a[k].target \in tx[t].held /\ doc[a[k].target].status = "ISSUED"
  BY <1>1 DEF ReconcileInv
<1>3. /\ x \in Tx /\ tx'[t] = x /\ s # <<>>
      /\ r \in Docs \union {Books, NoDoc} /\ Passes(t) /\ r = Head(s)
      /\ x.op = "reconcile" /\ x.target = b
      /\ x.held = tx[t].held \union ({r} \ {NoDoc})
      /\ x.todo = Tail(s)
      /\ UNCHANGED <<doc, applied, credits, posting, series, manual, bank>>
  BY <1>1, LockFacts
<1>4. a \in Seq(Allocation) /\ s \in Seq(Docs \union {Books, NoDoc})
  BY <1>1, <1>2, TxFields DEF TypeOK
<1>5. /\ m \in Nat /\ m > 0 /\ DOMAIN s = 1 .. m
      /\ Len(Tail(s)) = m - 1 /\ DOMAIN Tail(s) = 1 .. m - 1
      /\ \A i \in 1 .. m - 1 : Tail(s)[i] = s[i + 1]
  BY <1>3, <1>4, TailFacts
<1>6. n \in Nat /\ DOMAIN a = 1 .. n /\ \A k \in 1 .. n : a[k].target \in Docs \union {NoDoc}
  <2>1. \A p \in Allocation : p.target \in Docs \union {NoDoc}
    BY DEF Allocation
  <2>. QED
    BY <1>4, <2>1, ElementType
<1>7. r = IF n + 2 - m = 1 THEN Books ELSE a[n + 1 - m].target
  <2>. HIDE DEF n, m, s, a
  <2>1. n + 1 - m + 1 = n + 2 - m /\ n + 1 - m + 1 - 1 = n + 1 - m
    BY <1>5, <1>6
  <2>. QED  BY <1>2, <1>5, <1>6, <2>1 DEF r
<1>8. n + 1 - (m - 1) >= 0
      /\ \A i \in DOMAIN Tail(s) :
           Tail(s)[i] = IF n + 1 - (m - 1) + i = 1 THEN Books
                        ELSE a[n + 1 - (m - 1) + i - 1].target
  <2>. HIDE DEF n, m, s, a
  <2>1. n + 1 - (m - 1) >= 0
    BY <1>2, <1>5, <1>6
  <2>2. ASSUME NEW i \in 1 .. m - 1
        PROVE  Tail(s)[i] = IF n + 1 - (m - 1) + i = 1 THEN Books
                            ELSE a[n + 1 - (m - 1) + i - 1].target
    <3>1. i + 1 \in 1 .. m /\ n + 1 - (m - 1) + i = n + 1 - m + (i + 1)
          /\ n + 1 - (m - 1) + i - 1 = n + 1 - m + (i + 1) - 1
      BY <1>5, <1>6
    <3>. QED
      BY <1>2, <1>5, <3>1
  <2>. QED
    BY <1>5, <2>1, <2>2
<1>9. \A k \in DOMAIN a :
        k < n + 1 - (m - 1) /\ a[k].target # NoDoc =>
          a[k].target \in x.held /\ doc'[a[k].target].status = "ISSUED"
  <2>1. SUFFICES ASSUME NEW k \in 1 .. n, k < n + 1 - (m - 1), a[k].target # NoDoc
                 PROVE  a[k].target \in x.held /\ doc[a[k].target].status = "ISSUED"
    BY <1>3, <1>6
  <2>2. CASE k < n + 1 - m
    <3>. HIDE DEF n, m, s, a, x
    <3>. QED  BY <1>2, <1>3, <1>6, <2>1, <2>2
  <2>3. CASE k = n + 1 - m
    <3>1. n + 2 - m # 1
      <4>. HIDE DEF n, m, s, a
      <4>. QED  BY <1>5, <1>6, <2>3
    <3>2. r = a[k].target
      BY <1>7, <2>3, <3>1
    <3>3. r \in Docs
      BY <1>6, <2>1, <3>2
    <3>4. doc[r].status = "ISSUED"
      BY <1>3, <3>3 DEF Passes
    <3>. QED
      BY <1>3, <2>1, <3>2, <3>4
  <2>4. k < n + 1 - m \/ k = n + 1 - m
    <3>. HIDE DEF n, m, s, a
    <3>. QED  BY <1>5, <1>6, <2>1
  <2>. QED
    BY <2>2, <2>3, <2>4
<1>10. /\ tx'[t].target = b /\ tx'[t].held = x.held /\ tx'[t].todo = Tail(s) /\ bank' = bank
       /\ bank'[tx'[t].target].allocations = a /\ bank'[tx'[t].target].status # "POSTED"
  BY <1>2, <1>3
<1>11. /\ Len(a) + 1 - Len(Tail(s)) >= 0
       /\ \A i \in DOMAIN Tail(s) :
            Tail(s)[i] = IF Len(a) + 1 - Len(Tail(s)) + i = 1 THEN Books
                         ELSE a[Len(a) + 1 - Len(Tail(s)) + i - 1].target
       /\ \A k \in DOMAIN a :
            k < Len(a) + 1 - Len(Tail(s)) /\ a[k].target # NoDoc =>
              a[k].target \in x.held /\ doc'[a[k].target].status = "ISSUED"
  <2>1. Len(a) + 1 - Len(Tail(s)) = n + 1 - (m - 1)
    BY <1>5
  <2>. HIDE DEF n, m, x
  <2>. QED  BY <1>8, <1>9, <2>1
<1>. QED
  <2>1. b \in x.held
    BY <1>2, <1>3
  <2>. HIDE DEF x, s, a, m, n
  <2>. QED  BY <1>2, <1>10, <1>11, <2>1 DEF ReconcileInv

\* A lock is free, and what the others rely on is not touched.
LEMMA LockKeeps ==
  ASSUME IInv, NEW t \in Txns, Lock(t)
  PROVE  LocksApart' /\ TxInvOf(t)' /\ \A u \in Txns \ {t} : Frame(u)
<1> DEFINE x == LockTx(t)
           r == tx[t].todo[1]
<1>1. TypeOK /\ LocksApart /\ tx[t].op # "none"
  BY DEF IInv, Lock
<1>2. /\ x \in Tx /\ Moved(t, x) /\ tx'[t] = x /\ FreeFor(t, r)
      /\ x.op = tx[t].op /\ x.held = tx[t].held \union ({r} \ {NoDoc})
      /\ UNCHANGED <<doc, applied, credits, posting, series, manual, bank>>
  BY <1>1, LockFacts
<1>3. LocksApart'
  <2>1. \A u \in Txns \ {t} : x.held \intersect tx[u].held = {}
    BY <1>1, <1>2 DEF LocksApart, FreeFor
  <2>. HIDE DEF x
  <2>. QED  BY <1>1, <1>2, <2>1, LocksMoved
<1>4. TxInvOf(t)'
  <2>1. tx'[t].op = tx[t].op
    BY <1>2
  <2>2. IdleInv(t)'
    BY <1>1, <2>1 DEF IdleInv
  <2>3. IssueInv(t)'
    <3>1. CASE tx[t].op = "issue"
      BY <3>1, LockIssue
    <3>2. CASE tx[t].op # "issue"
      BY <2>1, <3>2 DEF IssueInv
    <3>. QED
      BY <3>1, <3>2
  <2>4. CreditInv(t)'
    <3>1. CASE tx[t].op = "credit"
      BY <3>1, LockCredit
    <3>2. CASE tx[t].op # "credit"
      BY <2>1, <3>2 DEF CreditInv
    <3>. QED
      BY <3>1, <3>2
  <2>5. ReconcileInv(t)'
    <3>1. CASE tx[t].op = "reconcile"
      BY <3>1, LockReconcile
    <3>2. CASE tx[t].op # "reconcile"
      BY <2>1, <3>2 DEF ReconcileInv
    <3>. QED
      BY <3>1, <3>2
  <2>. QED
    BY <2>2, <2>3, <2>4, <2>5 DEF TxInvOf
<1>. QED
  <2>. HIDE DEF x
  <2>. QED  BY <1>1, <1>2, <1>3, <1>4, MoveFrame

\* A transaction that is refused or lost lets go of its locks.
LEMMA EndKeeps ==
  ASSUME IInv, NEW t \in Txns, Refuse(t) \/ Abort(t)
  PROVE  LocksApart' /\ TxInvOf(t)' /\ \A u \in Txns \ {t} : Frame(u)
<1>1. TypeOK /\ LocksApart
  BY DEF IInv
<1>2. Moved(t, Idle) /\ UNCHANGED <<doc, applied, credits, posting, series, manual, bank>>
  BY DEF Refuse, Abort
<1>3. tx'[t] = Idle
  BY <1>1, <1>2 DEF TypeOK, Moved
<1>. QED
  BY <1>1, <1>2, <1>3, IdleType, IdleFields, IdleKeeps, LocksMoved, MoveFrame

\* A step that writes no table keeps what is true of them.
LEMMA TablesKept ==
  ASSUME IInv, UNCHANGED <<doc, applied, credits, posting, series, manual, bank>>
  PROVE  /\ UnissuedInv' /\ PostingInv' /\ AppliedInv' /\ CreditsInv'
         /\ AdvancesNotOverdrawn' /\ InvoiceNumbersGapless' /\ CreditsAddUp' /\ PaidOnce'
         /\ series' > 0
<1>1. UnissuedInv' /\ PostingInv' /\ CreditsInv' /\ series' > 0
  BY DEF IInv, UnissuedInv, Traceless, Issued, PostingInv, IssuePosting, CreditsInv
<1>2. AppliedInv' /\ AdvancesNotOverdrawn'
  BY DEF IInv, AppliedInv, AdvancesNotOverdrawn, AppliedFrom, Issued
<1>3. InvoiceNumbersGapless'
  BY DEF IInv, InvoiceNumbersGapless, Issued
<1>4. CreditsAddUp'
  BY DEF IInv, CreditsAddUp, WrittenOff, Issued, NotesTotal, NotesOf, Creditable
<1>5. PaidOnce'
  BY DEF IInv, PaidOnce, PaidByBank, Settles
<1>. QED
  BY <1>1, <1>2, <1>3, <1>4, <1>5

(***************************************************************************)
(* Drafts and payments by hand.                                            *)
(***************************************************************************)

TablesInv ==
  /\ UnissuedInv /\ PostingInv /\ AppliedInv /\ CreditsInv
  /\ AdvancesNotOverdrawn /\ InvoiceNumbersGapless /\ CreditsAddUp /\ PaidOnce
  /\ series > 0

Numbers == {doc[d].number : d \in {x \in Docs : Issued(x)}}

\* A document that is neither issued before nor after is written.
LEMMA DraftKeeps ==
  ASSUME IInv, NEW d \in Docs, NEW x \in Doc, ~Issued(d),
         doc' = [doc EXCEPT ![d] = x], x.status \notin {"ISSUED", "CREDITED"},
         x.kind # "SALES_CREDIT_NOTE", x.advance = 0, x.credited = 0, x.paid = 0, x.number = 0,
         UNCHANGED <<applied, credits, posting, series, manual, bank, tx>>
  PROVE  TablesInv'
<1>0. TypeOK /\ TablesInv /\ Traceless(d)
  BY DEF IInv, TablesInv, UnissuedInv
<1>1. /\ doc'[d] = x /\ \A e \in Docs \ {d} : doc'[e] = doc[e]
  BY <1>0 DEF TypeOK
<1>2. /\ ~Issued(d)' /\ \A e \in Docs \ {d} : Issued(e)' = Issued(e)
  BY <1>1 DEF Issued
<1>3. UnissuedInv'
  <2>1. Traceless(d)'
    BY <1>0, <1>1 DEF Traceless
  <2>2. ASSUME NEW e \in Docs \ {d}, Traceless(e) PROVE Traceless(e)'
    BY <1>1, <2>2 DEF Traceless
  <2>. QED
    BY <1>0, <1>2, <2>1, <2>2 DEF TablesInv, UnissuedInv
<1>4. PostingInv'
  BY <1>0, <1>1, <1>2 DEF TablesInv, PostingInv, IssuePosting
<1>5. AppliedInv'
  <2>1. \A f \in Docs : doc'[f].advance = doc[f].advance
    BY <1>0, <1>1 DEF Traceless
  <2>2. \A a \in Docs, f \in Docs : applied[<<a, f>>] # 0 => a # d
    BY <1>0 DEF Traceless
  <2>. QED
    BY <1>0, <1>1, <2>1, <2>2 DEF TablesInv, AppliedInv
<1>6. CreditsInv'
  <2>1. \A p \in credits : p[2] \in Docs /\ p[2] # d
    <3>1. \A p \in Docs \X Docs : p = <<p[1], p[2]>> /\ p[1] \in Docs /\ p[2] \in Docs
      OBVIOUS
    <3>. QED
      <4>1. SUFFICES ASSUME NEW p \in credits PROVE p[2] \in Docs /\ p[2] # d
        OBVIOUS
      <4>2. p = <<p[1], p[2]>> /\ p[1] \in Docs /\ p[2] \in Docs
        BY <1>0, <3>1 DEF TypeOK
      <4>3. \A y \in Docs : <<y, d>> \notin credits
        BY <1>0 DEF Traceless
      <4>. QED
        BY <4>2, <4>3, Zenon
  <2>. QED
    BY <1>0, <1>1, <2>1 DEF TablesInv, CreditsInv
<1>7. AdvancesNotOverdrawn'
  <2>1. \A a \in Docs : AppliedFrom(a)' = AppliedFrom(a)
    BY DEF AppliedFrom
  <2>. QED
    BY <1>0, <1>1, <1>2, <2>1 DEF TablesInv, AdvancesNotOverdrawn
<1>8. InvoiceNumbersGapless'
  <2>1. Numbers' = Numbers
    <3>1. \A n : n \in Numbers' <=> \E e \in Docs : Issued(e)' /\ n = doc'[e].number
      BY DEF Numbers
    <3>2. \A n : n \in Numbers <=> \E e \in Docs : Issued(e) /\ n = doc[e].number
      BY DEF Numbers
    <3>3. \A n : n \in Numbers' <=> n \in Numbers
      BY <1>1, <1>2, <3>1, <3>2
    <3>. QED
      BY <3>3, SetExtensionality
  <2>2. \A e \in Docs, f \in Docs : Issued(e)' /\ doc'[e].number = doc'[f].number => e = f
    <3>1. doc'[d].number = doc[d].number
      BY <1>0, <1>1 DEF Traceless
    <3>. QED
      BY <1>0, <1>1, <1>2, <3>1 DEF TablesInv, InvoiceNumbersGapless
  <2>3. Numbers = 1 .. series - 1 /\ series' = series
    BY <1>0 DEF TablesInv, InvoiceNumbersGapless, Numbers
  <2>. QED
    BY <2>1, <2>2, <2>3 DEF InvoiceNumbersGapless, Numbers
<1>9. CreditsAddUp'
  <2>1. ASSUME NEW e \in Docs
        PROVE  NotesOf(e)' = NotesOf(e) /\ NotesTotal(e)' = NotesTotal(e)
    <3>1. NotesOf(e)' = NotesOf(e)
      BY DEF NotesOf
    <3>2. d \notin NotesOf(e) /\ NotesOf(e) \subseteq Docs
      BY <1>0 DEF Traceless, NotesOf
    <3> DEFINE f == [c \in Docs |-> doc[c].total]
               g == [c \in Docs |-> doc'[c].total]
               S == NotesOf(e)
    <3>3. \A c \in S : g[c] = f[c]
      BY <1>1, <3>2
    <3>4. IsFiniteSet(S)
      BY <3>2, SettlementAssumption, FS_Subset
    <3>5. SumFunctionOnSet(g, S) = SumFunctionOnSet(f, S)
      <4>. HIDE DEF f, g, S
      <4>. QED  BY <3>3, <3>4, SumSame
    <3>. QED
      BY <3>1, <3>5 DEF NotesTotal
  <2>. QED
    BY <1>0, <1>1, <1>2, <2>1 DEF TablesInv, CreditsAddUp, WrittenOff, Creditable
<1>10. PaidOnce'
  <2>1. \A e \in Docs : doc'[e].paid = doc[e].paid
    BY <1>0, <1>1 DEF Traceless
  <2>2. \A e \in Docs : PaidByBank(e)' = PaidByBank(e)
    BY DEF PaidByBank, Settles
  <2>. QED
    BY <1>0, <2>1, <2>2 DEF TablesInv, PaidOnce
<1>. QED
  BY <1>0, <1>3, <1>4, <1>5, <1>6, <1>7, <1>8, <1>9, <1>10 DEF TablesInv

\* Payments and bank transactions change nothing the books of the invoices rest on.
LEMMA InvoicesKept ==
  ASSUME IInv,
         \A d \in Docs : /\ doc'[d].status = doc[d].status /\ doc'[d].kind = doc[d].kind
                         /\ doc'[d].total = doc[d].total /\ doc'[d].advance = doc[d].advance
                         /\ doc'[d].credited = doc[d].credited
                         /\ doc'[d].number = doc[d].number,
         UNCHANGED <<applied, credits, posting, series>>
  PROVE  /\ PostingInv' /\ AppliedInv' /\ CreditsInv' /\ AdvancesNotOverdrawn'
         /\ InvoiceNumbersGapless' /\ CreditsAddUp' /\ series' > 0
<1>0. TypeOK /\ TablesInv
  BY DEF IInv, TablesInv
<1>1. \A d \in Docs : Issued(d)' = Issued(d)
  BY DEF Issued
<1>2. PostingInv'
  BY <1>0, <1>1 DEF TablesInv, PostingInv, IssuePosting
<1>3. AppliedInv'
  BY <1>0 DEF TablesInv, AppliedInv
<1>4. CreditsInv'
  <2>1. \A p \in credits : p[2] \in Docs
    BY <1>0 DEF TypeOK
  <2>. QED
    BY <1>0, <2>1 DEF TablesInv, CreditsInv
<1>5. AdvancesNotOverdrawn'
  <2>1. \A a \in Docs : AppliedFrom(a)' = AppliedFrom(a)
    BY DEF AppliedFrom
  <2>. QED
    BY <1>0, <1>1, <2>1 DEF TablesInv, AdvancesNotOverdrawn
<1>6. InvoiceNumbersGapless'
  <2>1. Numbers' = Numbers
    BY <1>1 DEF Numbers
  <2>2. \A e \in Docs, f \in Docs : Issued(e)' /\ doc'[e].number = doc'[f].number => e = f
    BY <1>0, <1>1 DEF TablesInv, InvoiceNumbersGapless
  <2>3. Numbers = 1 .. series - 1 /\ series' = series
    BY <1>0 DEF TablesInv, InvoiceNumbersGapless, Numbers
  <2>. QED
    BY <2>1, <2>2, <2>3 DEF InvoiceNumbersGapless, Numbers
<1>7. CreditsAddUp'
  <2>1. [c \in Docs |-> doc'[c].total] = [c \in Docs |-> doc[c].total]
    OBVIOUS
  <2>2. \A d \in Docs : NotesOf(d)' = NotesOf(d) /\ NotesTotal(d)' = NotesTotal(d)
    BY <2>1 DEF NotesOf, NotesTotal
  <2>. QED
    BY <1>0, <1>1, <2>2 DEF TablesInv, CreditsAddUp, WrittenOff, Creditable
<1>. QED
  BY <1>0, <1>2, <1>3, <1>4, <1>5, <1>6, <1>7 DEF TablesInv

\* What a bank transaction that is not posted says, before and after, is not counted.
LEMMA UnpostedBank ==
  ASSUME TypeOK, NEW b \in Banks, bank[b].status # "POSTED",
         bank'[b].status # "POSTED", \A c \in Banks \ {b} : bank'[c] = bank[c],
         NEW d \in Docs
  PROVE  PaidByBank(d)' = PaidByBank(d)
<1> DEFINE S == {c \in Banks : bank[c].status = "POSTED"}
           f == [c \in Banks |-> Settles(c, d)]
           g == [c \in Banks |-> Settles(c, d)']
<1>1. {c \in Banks : bank'[c].status = "POSTED"} = S
  OBVIOUS
<1>2. IsFiniteSet(S)
  BY SettlementAssumption, FS_Subset
<1>3. \A c \in S : g[c] = f[c]
  BY DEF Settles
<1>4. SumFunctionOnSet(g, S) = SumFunctionOnSet(f, S)
  <2>. HIDE DEF f, g, S
  <2>. QED  BY <1>2, <1>3, SumSame
<1>. QED
  BY <1>1, <1>4 DEF PaidByBank

\* What a bank transaction pays of a document is a natural.
LEMMA SettlesNat ==
  ASSUME TypeOK, NEW b \in Banks, NEW d
  PROVE  Settles(b, d) \in Nat
<1> DEFINE s == bank[b].allocations
           f == AmountsOf(s)
           S == {k \in DOMAIN s : s[k].target = d}
<1>1. s \in Seq(Allocation)
  BY DEF TypeOK
<1>2. DOMAIN s = 1 .. Len(s) /\ Len(s) \in Nat
  BY <1>1
<1>3. IsFiniteSet(S)
  <2>1. IsFiniteSet(1 .. Len(s)) /\ S \subseteq 1 .. Len(s)
    BY <1>2, FS_Interval
  <2>. QED
    BY <2>1, FS_Subset
<1>4. \A k \in S : f[k] \in Nat
  BY <1>1, AllocationsNat DEF AmountsOf
<1>5. SumFunctionOnSet(f, S) \in Nat
  <2>. HIDE DEF f, S
  <2>. QED  BY <1>3, <1>4, SumNat
<1>. QED
  BY <1>5 DEF Settles

\* What the bank transactions posted have paid of a document is a natural.
LEMMA PaidByBankNat ==
  ASSUME TypeOK, NEW d
  PROVE  PaidByBank(d) \in Nat
<1> DEFINE T == {b \in Banks : bank[b].status = "POSTED"}
           g == [b \in Banks |-> Settles(b, d)]
<1>1. IsFiniteSet(T) /\ \A b \in T : g[b] \in Nat
  BY SettlesNat, SettlementAssumption, FS_Subset
<1>2. SumFunctionOnSet(g, T) \in Nat
  <2>. HIDE DEF g, T
  <2>. QED  BY <1>1, SumNat
<1>. QED
  BY <1>2 DEF PaidByBank

\* What a payment leaves of the document as it was.
LEMMA PaidRecord ==
  ASSUME TypeOK, NEW d \in Docs, NEW amount \in Nat
  PROVE  LET x == Paid(d, amount)
         IN  /\ x.paid = doc[d].paid + amount
             /\ x.status = doc[d].status /\ x.kind = doc[d].kind
             /\ x.total = doc[d].total /\ x.advance = doc[d].advance
             /\ x.credited = doc[d].credited /\ x.number = doc[d].number
             /\ x = [doc[d] EXCEPT !.payment = x.payment, !.paid = x.paid]
<1>1. doc[d] \in Doc /\ doc[d].paid + amount \in Nat
  BY DEF TypeOK, Doc
<1>2. PaymentStatus(Open(d) - amount, doc[d].paid + amount)
        \in {"UNPAID", "PARTIALLY_PAID", "PAID"}
  BY DEF PaymentStatus
<1>. QED
  BY <1>1, <1>2 DEF Paid, Doc

\* What a payment writes, in the table.
LEMMA PaidFields ==
  ASSUME TypeOK, NEW d \in Docs, NEW amount \in Nat, doc' = [doc EXCEPT ![d] = Paid(d, amount)]
  PROVE  /\ doc'[d] = Paid(d, amount)
         /\ doc'[d].paid = doc[d].paid + amount
         /\ \A e \in Docs \ {d} : doc'[e] = doc[e]
         /\ \A e \in Docs :
              /\ doc'[e].status = doc[e].status /\ doc'[e].kind = doc[e].kind
              /\ doc'[e].total = doc[e].total /\ doc'[e].advance = doc[e].advance
              /\ doc'[e].credited = doc[e].credited /\ doc'[e].number = doc[e].number
<1>1. doc'[d] = Paid(d, amount) /\ \A e \in Docs \ {d} : doc'[e] = doc[e]
  BY DEF TypeOK
<1> DEFINE x == Paid(d, amount)
<1>2. /\ x.paid = doc[d].paid + amount
      /\ x.status = doc[d].status /\ x.kind = doc[d].kind
      /\ x.total = doc[d].total /\ x.advance = doc[d].advance
      /\ x.credited = doc[d].credited /\ x.number = doc[d].number
  BY PaidRecord
<1>. QED
  <2>1. doc'[d] = x
    BY <1>1
  <2>. HIDE DEF x
  <2>. QED  BY <1>1, <1>2, <2>1

\* A payment by hand keeps what is true of the tables.
LEMMA PayKeeps ==
  ASSUME IInv, NEW d \in Docs, NEW amount \in Amounts, Pay(d, amount)
  PROVE  TablesInv'
<1>0. TypeOK /\ TablesInv /\ amount \in Nat
  BY SettlementAssumption DEF IInv, TablesInv
<1>1. /\ doc' = [doc EXCEPT ![d] = Paid(d, amount)] /\ Issued(d)
      /\ manual' = [manual EXCEPT ![d] = @ + amount]
      /\ UNCHANGED <<applied, credits, posting, series, bank, tx>>
  BY DEF Pay, Issued
<1>2. /\ doc'[d].paid = doc[d].paid + amount
      /\ \A e \in Docs \ {d} : doc'[e] = doc[e]
      /\ \A e \in Docs :
              /\ doc'[e].status = doc[e].status /\ doc'[e].kind = doc[e].kind
              /\ doc'[e].total = doc[e].total /\ doc'[e].advance = doc[e].advance
              /\ doc'[e].credited = doc[e].credited /\ doc'[e].number = doc[e].number
  BY <1>0, <1>1, PaidFields
<1>3. /\ PostingInv' /\ AppliedInv' /\ CreditsInv' /\ AdvancesNotOverdrawn'
      /\ InvoiceNumbersGapless' /\ CreditsAddUp' /\ series' > 0
  BY <1>1, <1>2, InvoicesKept
<1>4. UnissuedInv'
  <2>1. ASSUME NEW e \in Docs, ~Issued(e)'
        PROVE  e # d /\ Traceless(e)
    BY <1>0, <1>1, <1>2, <2>1 DEF Issued, TablesInv, UnissuedInv
  <2>2. ASSUME NEW e \in Docs \ {d}, Traceless(e)
        PROVE  Traceless(e)'
    BY <1>0, <1>1, <1>2, <2>2 DEF Traceless, TypeOK
  <2>. QED
    BY <2>1, <2>2 DEF UnissuedInv
<1>5. PaidOnce'
  <2>1. \A e \in Docs : PaidByBank(e)' = PaidByBank(e)
    BY <1>1 DEF PaidByBank, Settles
  <2>2. \A e \in Docs \ {d} : manual'[e] = manual[e] /\ doc'[e].paid = doc[e].paid
    BY <1>0, <1>1, <1>2 DEF TypeOK
  <2>3. manual'[d] = manual[d] + amount /\ manual[d] \in Nat
    BY <1>0, <1>1 DEF TypeOK
  <2>4. doc[d].paid = manual[d] + PaidByBank(d) /\ doc[d].paid \in Nat
    BY <1>0 DEF TablesInv, PaidOnce, TypeOK, Doc
  <2>5. PaidByBank(d) \in Nat
    BY <1>0, PaidByBankNat
  <2>6. doc'[d].paid = manual'[d] + PaidByBank(d)'
    <3>1. PaidByBank(d)' = PaidByBank(d)
      BY <2>1
    <3>. QED
      BY <1>0, <1>2, <2>3, <2>4, <2>5, <3>1
  <2>7. \A e \in Docs \ {d} : doc'[e].paid = manual'[e] + PaidByBank(e)'
    BY <1>0, <2>1, <2>2 DEF TablesInv, PaidOnce
  <2>. QED
    BY <2>6, <2>7 DEF PaidOnce
<1>. QED
  BY <1>3, <1>4, <1>5 DEF TablesInv

(***************************************************************************)
(* Matching of bank transactions.                                          *)
(***************************************************************************)

\* The allocations of one bank transaction are edited; what it comes to name is issued.
LEMMA MatchTables ==
  ASSUME IInv, NEW b \in Banks, bank[b].status # "POSTED", bank'[b].status # "POSTED",
         \A c \in Banks \ {b} : bank'[c] = bank[c],
         \A d \in Docs : ~Issued(d) =>
           \A k \in DOMAIN bank'[b].allocations : bank'[b].allocations[k].target # d,
         UNCHANGED <<doc, applied, credits, posting, series, manual>>
  PROVE  TablesInv'
<1>0. TypeOK /\ TablesInv
  BY DEF IInv, TablesInv
<1>1. /\ PostingInv' /\ AppliedInv' /\ CreditsInv' /\ AdvancesNotOverdrawn'
      /\ InvoiceNumbersGapless' /\ CreditsAddUp' /\ series' > 0
  BY InvoicesKept
<1>2. UnissuedInv'
  <2>1. SUFFICES ASSUME NEW d \in Docs, ~Issued(d) PROVE Traceless(d)'
    BY DEF UnissuedInv, Issued
  <2>2. Traceless(d)
    BY <1>0, <2>1 DEF TablesInv, UnissuedInv
  <2>3. \A c \in Banks : \A k \in DOMAIN bank'[c].allocations :
          bank'[c].allocations[k].target # d
    BY <2>1, <2>2 DEF Traceless
  <2>. QED
    BY <2>2, <2>3 DEF Traceless
<1>3. PaidOnce'
  <2>1. \A d \in Docs : PaidByBank(d)' = PaidByBank(d)
    BY <1>0, UnpostedBank
  <2>. QED
    BY <1>0, <2>1 DEF TablesInv, PaidOnce
<1>. QED
  BY <1>1, <1>2, <1>3 DEF TablesInv

\* Matching a bank transaction that is not posted keeps the invariant.
LEMMA MatchKeeps ==
  ASSUME IInv, Match
  PROVE  TablesInv' /\ LocksApart' /\ TxInv'
<1>0. TypeOK /\ TablesInv /\ LocksApart /\ TxInv
  BY DEF IInv, TablesInv
<1>1. ASSUME NEW b \in Banks, Unlocked(b), bank[b].status # "POSTED",
             bank'[b].status # "POSTED",
             \A c \in Banks \ {b} : bank'[c] = bank[c],
             \A d \in Docs : ~Issued(d) =>
               \A k \in DOMAIN bank'[b].allocations : bank'[b].allocations[k].target # d,
             UNCHANGED <<doc, applied, credits, posting, series, manual, tx>>
      PROVE  TablesInv' /\ LocksApart' /\ TxInv'
  <2>1. TablesInv'
    BY <1>1, MatchTables
  <2>2. LocksApart'
    BY <1>0, <1>1 DEF LocksApart
  <2>3. \A u \in Txns : Frame(u)
    BY <1>1 DEF Frame, Unlocked, AppliedFrom, NotesOf
  <2>4. \A u \in Txns : TxInvOf(u)'
    BY <1>0, <2>3, FrameKeeps DEF TxInv, TxInvOf
  <2>. QED
    BY <2>1, <2>2, <2>4 DEF TxInv, TxInvOf
<1>2. \A b \in Banks : bank[b].allocations \in Seq(Allocation)
  BY <1>0 DEF TypeOK
<1>3. \A d \in Docs : ~Issued(d) => \A b \in Banks : \A k \in DOMAIN bank[b].allocations :
        bank[b].allocations[k].target # d
  BY <1>0 DEF TablesInv, UnissuedInv, Traceless
<1>4. ASSUME NEW b \in Banks, NEW e \in Docs \union {NoDoc}, NEW amount \in Amounts,
             CreateAllocation(b, e, amount)
      PROVE  TablesInv' /\ LocksApart' /\ TxInv'
  <2> DEFINE s == bank[b].allocations
             x == [target |-> e, amount |-> amount]
             q == [status |-> MatchStatus(b, SumOf(s) + amount), allocations |-> Append(s, x)]
  <2>1. /\ Unlocked(b) /\ bank[b].status # "POSTED" /\ bank' = [bank EXCEPT ![b] = q]
        /\ e # NoDoc => Issued(e)
        /\ UNCHANGED <<doc, applied, credits, posting, series, manual, tx>>
    BY <1>4 DEF CreateAllocation, Issued
  <2>2. bank'[b] = q /\ \A c \in Banks \ {b} : bank'[c] = bank[c]
    BY <1>0, <2>1 DEF TypeOK
  <2>3. q.status # "POSTED"
    BY DEF MatchStatus
  <2>4. /\ DOMAIN Append(s, x) = 1 .. Len(s) + 1 /\ DOMAIN s = 1 .. Len(s)
        /\ \A k \in 1 .. Len(s) + 1 : Append(s, x)[k] = IF k = Len(s) + 1 THEN x ELSE s[k]
    <3>1. s \in Seq(Allocation) /\ x \in Allocation
      BY <1>2 DEF Allocation
    <3>. HIDE DEF s, x
    <3>. QED  BY <3>1
  <2>5. ASSUME NEW d \in Docs, ~Issued(d), NEW k \in DOMAIN Append(s, x)
        PROVE  Append(s, x)[k].target # d
    <3>1. x.target # d
      BY <2>1, <2>5, SettlementAssumption
    <3>2. \A i \in DOMAIN s : s[i].target # d
      BY <1>3, <2>5
    <3>. HIDE DEF s, x
    <3>. QED  BY <2>4, <2>5, <3>1, <3>2
  <2>6. bank'[b].allocations = Append(s, x)
    BY <2>2
  <2>. QED
    <3>. HIDE DEF s, x, q
    <3>. QED  BY <1>1, <2>1, <2>2, <2>3, <2>5, <2>6
<1>5. ASSUME NEW b \in Banks, NEW k \in 1 .. MaxAllocations, DeleteAllocation(b, k)
      PROVE  TablesInv' /\ LocksApart' /\ TxInv'
  <2> DEFINE s == bank[b].allocations
             r == RemoveAt(s, k)
             q == [status |-> IF Len(s) = 1 THEN "UNMATCHED" ELSE "PARTIALLY_MATCHED",
                   allocations |-> r]
  <2>1. /\ Unlocked(b) /\ bank[b].status # "POSTED" /\ bank' = [bank EXCEPT ![b] = q]
        /\ k \in DOMAIN s
        /\ UNCHANGED <<doc, applied, credits, posting, series, manual, tx>>
    BY <1>5 DEF DeleteAllocation
  <2>2. bank'[b] = q /\ \A c \in Banks \ {b} : bank'[c] = bank[c]
    BY <1>0, <2>1 DEF TypeOK
  <2>3. q.status # "POSTED"
    OBVIOUS
  <2>4. \A i \in DOMAIN r : \E j \in DOMAIN s : r[i] = s[j]
    <3>1. s \in Seq(Allocation)
      BY <1>2
    <3>. HIDE DEF s
    <3>2. SubSeq(s, 1, k - 1) \in Seq(Allocation) /\ SubSeq(s, k + 1, Len(s)) \in Seq(Allocation)
      BY <2>1, <3>1
    <3>3. /\ Len(SubSeq(s, 1, k - 1)) = k - 1 /\ Len(SubSeq(s, k + 1, Len(s))) = Len(s) - k
          /\ \A i \in 1 .. k - 1 : SubSeq(s, 1, k - 1)[i] = s[i]
          /\ \A i \in 1 .. Len(s) - k : SubSeq(s, k + 1, Len(s))[i] = s[k + i]
      BY <2>1, <3>1
    <3>4. /\ DOMAIN r = 1 .. Len(s) - 1
          /\ \A i \in 1 .. Len(s) - 1 : r[i] = IF i < k THEN s[i] ELSE s[i + 1]
      <4> DEFINE A == SubSeq(s, 1, k - 1)
                 B == SubSeq(s, k + 1, Len(s))
      <4>1. r = A \o B
        BY DEF RemoveAt
      <4>2. k \in 1 .. Len(s) /\ Len(s) \in Nat
        BY <2>1, <3>1
      <4>. HIDE DEF A, B, r
      <4>3. /\ r \in Seq(Allocation) /\ Len(r) = Len(A) + Len(B)
            /\ \A i \in 1 .. Len(A) + Len(B) :
                 r[i] = IF i <= Len(A) THEN A[i] ELSE B[i - Len(A)]
        BY <3>2, <4>1, ConcatProperties DEF A, B
      <4>4. Len(A) = k - 1 /\ Len(B) = Len(s) - k
        BY <3>3 DEF A, B
      <4>5. DOMAIN r = 1 .. Len(s) - 1
        BY <4>2, <4>3, <4>4, ElementType
      <4>6. ASSUME NEW i \in 1 .. Len(s) - 1
            PROVE  r[i] = IF i < k THEN s[i] ELSE s[i + 1]
        <5>1. CASE i < k
          <6>1. i \in 1 .. k - 1 /\ i <= Len(A) /\ i \in 1 .. Len(A) + Len(B)
            BY <4>2, <4>4, <5>1
          <6>2. A[i] = s[i]
            BY <3>3, <6>1 DEF A
          <6>. QED
            BY <4>3, <5>1, <6>1, <6>2
        <5>2. CASE ~(i < k)
          <6>1. i - Len(A) \in 1 .. Len(s) - k /\ ~(i <= Len(A)) /\ i \in 1 .. Len(A) + Len(B)
                /\ k + (i - Len(A)) = i + 1
            BY <4>2, <4>4, <5>2
          <6>2. B[i - Len(A)] = s[i + 1]
            BY <3>3, <6>1 DEF B
          <6>. QED
            BY <4>3, <5>2, <6>1, <6>2
        <5>. QED
          BY <5>1, <5>2
      <4>. QED
        BY <4>5, <4>6
    <3>. HIDE DEF r
    <3>5. ASSUME NEW i \in 1 .. Len(s) - 1
          PROVE  \E j \in DOMAIN s : r[i] = s[j]
      <4>1. i \in DOMAIN s /\ i + 1 \in DOMAIN s
        BY <3>1
      <4>. QED
        BY <3>4, <4>1
    <3>. QED
      BY <3>4, <3>5
  <2>5. bank'[b].allocations = r
    BY <2>2
  <2>6. \A d \in Docs : ~Issued(d) => \A i \in DOMAIN r : r[i].target # d
    <3>. HIDE DEF r
    <3>. QED  BY <1>3, <2>4
  <2>. QED
    <3>. HIDE DEF s, r, q
    <3>. QED  BY <1>1, <2>1, <2>2, <2>3, <2>5, <2>6
<1>6. ASSUME NEW b \in Banks, ReviewNoPost(b)
      PROVE  TablesInv' /\ LocksApart' /\ TxInv'
  <2>1. /\ Unlocked(b) /\ bank[b].status # "POSTED"
        /\ bank' = [bank EXCEPT ![b].status = "REVIEWED_NO_POST"]
        /\ UNCHANGED <<doc, applied, credits, posting, series, manual, tx>>
    BY <1>6 DEF ReviewNoPost
  <2>2. /\ bank'[b].status = "REVIEWED_NO_POST" /\ bank'[b].allocations = bank[b].allocations
        /\ \A c \in Banks \ {b} : bank'[c] = bank[c]
    BY <1>0, <2>1 DEF TypeOK
  <2>. QED
    BY <1>1, <1>3, <2>1, <2>2
<1>. QED
  BY <1>4, <1>5, <1>6 DEF Match

\* Of the drafts, and of the payments entered by hand.
LEMMA EditKeeps ==
  ASSUME IInv, Edit
  PROVE  TablesInv' /\ LocksApart' /\ TxInv'
<1>0. TypeOK /\ TablesInv /\ LocksApart /\ TxInv
  BY DEF IInv, TablesInv
<1>1. ASSUME NEW d \in Docs, Unlocked(d), \A e \in Docs \ {d} : doc'[e] = doc[e],
             UNCHANGED <<applied, credits, posting, series, bank, tx>>
      PROVE  LocksApart' /\ TxInv'
  <2>1. LocksApart'
    BY <1>0, <1>1 DEF LocksApart
  <2>2. \A u \in Txns : Frame(u)
    BY <1>1 DEF Frame, Unlocked, AppliedFrom, NotesOf
  <2>3. \A u \in Txns : TxInvOf(u)'
    BY <1>0, <2>2, FrameKeeps DEF TxInv, TxInvOf
  <2>. QED
    BY <2>1, <2>3 DEF TxInv, TxInvOf
<1>2. ASSUME NEW d \in Docs, NEW draft \in Drafts,
             CreateInvoiceDraft(d, draft) \/ UpdateDraft(d, draft)
      PROVE  TablesInv' /\ LocksApart' /\ TxInv'
  <2> DEFINE x == DraftDoc(draft)
  <2>1. /\ Unlocked(d) /\ ~Issued(d) /\ doc' = [doc EXCEPT ![d] = x]
        /\ UNCHANGED <<applied, credits, posting, series, manual, bank, tx>>
    BY <1>2 DEF CreateInvoiceDraft, UpdateDraft, Issued
  <2>2. /\ x \in Doc /\ x.status \notin {"ISSUED", "CREDITED"}
        /\ x.kind # "SALES_CREDIT_NOTE" /\ x.advance = 0 /\ x.credited = 0
        /\ x.paid = 0 /\ x.number = 0
    BY DraftDocType, SettlementAssumption DEF DraftDoc
  <2>3. \A e \in Docs \ {d} : doc'[e] = doc[e]
    BY <1>0, <2>1 DEF TypeOK
  <2>. QED
    <3>. HIDE DEF x
    <3>. QED  BY <1>1, <2>1, <2>2, <2>3, DraftKeeps
<1>3. ASSUME NEW d \in Docs, CancelDraft(d)
      PROVE  TablesInv' /\ LocksApart' /\ TxInv'
  <2> DEFINE x == [doc[d] EXCEPT !.status = "CANCELLED_DRAFT"]
  <2>1. /\ Unlocked(d) /\ ~Issued(d) /\ doc' = [doc EXCEPT ![d] = x]
        /\ UNCHANGED <<applied, credits, posting, series, manual, bank, tx>>
    BY <1>3 DEF CancelDraft, Issued
  <2>2. Traceless(d) /\ doc[d] \in Doc
    BY <1>0, <2>1 DEF TablesInv, UnissuedInv, TypeOK
  <2>3. /\ x \in Doc /\ x.status \notin {"ISSUED", "CREDITED"}
        /\ x.kind # "SALES_CREDIT_NOTE" /\ x.advance = 0 /\ x.credited = 0
        /\ x.paid = 0 /\ x.number = 0
    BY <2>2 DEF Traceless, Doc, DocStatus
  <2>4. \A e \in Docs \ {d} : doc'[e] = doc[e]
    BY <1>0, <2>1 DEF TypeOK
  <2>. QED
    <3>. HIDE DEF x
    <3>. QED  BY <1>1, <2>1, <2>3, <2>4, DraftKeeps
<1>4. ASSUME NEW d \in Docs, NEW amount \in Amounts, Pay(d, amount)
      PROVE  TablesInv' /\ LocksApart' /\ TxInv'
  <2>1. /\ Unlocked(d) /\ \A e \in Docs \ {d} : doc'[e] = doc[e]
        /\ UNCHANGED <<applied, credits, posting, series, bank, tx>>
    BY <1>0, <1>4 DEF Pay, TypeOK
  <2>. QED
    BY <1>1, <1>4, <2>1, PayKeeps
<1>. QED
  BY <1>2, <1>3, <1>4 DEF Edit

(***************************************************************************)
(* Issuing.                                                                *)
(***************************************************************************)

\* What an issue takes from an advance: nothing, or the one amount that was tested.
LEMMA UsedOfFacts ==
  ASSUME NEW plan \in Seq(Use), ~DuplicateUse(plan), NEW a
  PROVE  /\ UsedOf(plan, a) \in Nat
         /\ UsedOf(plan, a) # 0 =>
              \E k \in DOMAIN plan : plan[k].advance = a /\ UsedOf(plan, a) = plan[k].amount
<1> DEFINE f == AmountsOf(plan)
           S == {k \in DOMAIN plan : plan[k].advance = a}
<1>1. UsedOf(plan, a) = SumFunctionOnSet(f, S) /\ UsedOf(plan, a) \in Nat
  BY UsedOfNat DEF UsedOf
<1>2. CASE S = {}
  <2>1. SumFunctionOnSet(f, S) = 0
    <3>. HIDE DEF f, S
    <3>. QED  BY <1>2, SumEmpty
  <2>. QED
    BY <1>1, <2>1
<1>3. CASE S # {}
  <2>1. PICK k \in S : TRUE
    BY <1>3
  <2>2. S = {k}
    BY <2>1 DEF DuplicateUse
  <2>3. f[k] = plan[k].amount /\ f[k] \in Int
    BY <2>1, PlanNat DEF AmountsOf
  <2>4. SumFunctionOnSet(f, S) = f[k]
    <3>. HIDE DEF f, S
    <3>. QED  BY <2>2, <2>3, SumOne
  <2>. QED
    BY <1>1, <2>1, <2>3, <2>4
<1>. QED
  BY <1>2, <1>3

\* The amounts taken, advance by advance, add up to what the invoice covers.
LEMMA UsedOfSum ==
  ASSUME NEW plan \in Seq(Use), NEW g, \A a \in Docs : g[a] = UsedOf(plan, a)
  PROVE  SumFunctionOnSet(g, Docs) = SumOf(plan)
<1> DEFINE f == AmountsOf(plan)
           S == DOMAIN plan
           key == [k \in S |-> plan[k].advance]
<1>1. IsFiniteSet(S)
  BY FS_Interval
<1>2. key \in [S -> Docs]
  <2>1. \A p \in Use : p.advance \in Docs
    BY DEF Use
  <2>2. \A k \in S : plan[k].advance \in Docs
    BY <2>1, ElementType
  <2>. QED
    BY <2>2
<1>3. \A k \in S : f[k] \in Int
  BY PlanNat DEF AmountsOf
<1>4. ASSUME NEW a \in Docs
      PROVE  g[a] = SumFunctionOnSet(f, {k \in S : key[k] = a})
  <2>1. {k \in S : key[k] = a} = {k \in DOMAIN plan : plan[k].advance = a}
    OBVIOUS
  <2>. QED
    BY <2>1 DEF UsedOf
<1>5. SumFunctionOnSet(g, Docs) = SumFunctionOnSet(f, S)
  <2>1. IsFiniteSet(Docs) /\ \A a \in Docs : g[a] = SumFunctionOnSet(f, Group(S, key, a))
    BY <1>4, SettlementAssumption DEF Group
  <2>. HIDE DEF f, S, key
  <2>. QED  BY <1>1, <1>2, <1>3, <2>1, SumByKey
<1>6. DOMAIN f = S
  BY DEF AmountsOf
<1>. QED
  BY <1>5, <1>6 DEF SumOf, SumFunction

\* One more number is drawn for a document that had none.
LEMMA NumberDrawn ==
  ASSUME TypeOK, InvoiceNumbersGapless, series > 0, NEW d \in Docs, ~Issued(d), Issued(d)',
         doc'[d].number = series, series' = series + 1,
         \A e \in Docs \ {d} : Issued(e)' = Issued(e) /\ doc'[e].number = doc[e].number,
         \A e \in Docs : ~Issued(e) => doc[e].number = 0
  PROVE  InvoiceNumbersGapless'
<1>1. series \in Nat /\ Numbers = 1 .. series - 1
  BY DEF TypeOK, InvoiceNumbersGapless, Numbers
<1>2. \A n : n \in Numbers' <=> n = series \/ n \in Numbers
  <2>1. \A n : n \in Numbers' <=> \E e \in Docs : Issued(e)' /\ n = doc'[e].number
    BY DEF Numbers
  <2>2. \A n : n \in Numbers <=> \E e \in Docs : Issued(e) /\ n = doc[e].number
    BY DEF Numbers
  <2>. QED
    BY <2>1, <2>2
<1>3. Numbers' = 1 .. series' - 1
  <2>1. \A n : n \in 1 .. series' - 1 <=> n = series \/ n \in 1 .. series - 1
    BY <1>1
  <2>. QED
    BY <1>1, <1>2, <2>1, SetExtensionality
<1>4. \A e \in Docs \ {d} : doc'[e].number # series
  <2>1. SUFFICES ASSUME NEW e \in Docs \ {d} PROVE doc[e].number # series
    OBVIOUS
  <2>2. CASE Issued(e)
    <3>1. doc[e].number \in Numbers
      BY <2>2 DEF Numbers
    <3>. QED
      BY <1>1, <3>1
  <2>3. CASE ~Issued(e)
    BY <1>1, <2>3
  <2>. QED
    BY <2>2, <2>3
<1>5. \A e \in Docs, f \in Docs : Issued(e)' /\ doc'[e].number = doc'[f].number => e = f
  BY <1>4 DEF InvoiceNumbersGapless
<1>. QED
  BY <1>3, <1>5 DEF InvoiceNumbersGapless, Numbers

\* Nothing was taken from a document no application names.
LEMMA AppliedFromZero ==
  ASSUME NEW a \in Docs, \A f \in Docs : applied[<<a, f>>] = 0
  PROVE  AppliedFrom(a) = 0
<1> DEFINE g == [f \in Docs |-> applied[<<a, f>>]]
<1>1. SumFunctionOnSet(g, Docs) = 0
  <2>1. \A f \in Docs : g[f] = 0
    OBVIOUS
  <2>. HIDE DEF g
  <2>. QED  BY <2>1, SumZero, SettlementAssumption
<1>2. DOMAIN g = Docs
  OBVIOUS
<1>. QED
  BY <1>1, <1>2 DEF AppliedFrom, SumFunction

\* The rows an issue writes: its own draft and what it takes from each advance.
LEMMA IssueApplied ==
  ASSUME IInv, NEW t \in Txns, CommitIssue(t), NEW a \in Docs
  PROVE  /\ a = tx[t].target => AppliedFrom(a)' = 0
         /\ a # tx[t].target =>
              AppliedFrom(a)' = AppliedFrom(a) + UsedOf(tx[t].plan, a)
         /\ UsedOf(tx[t].plan, a) # 0 =>
              /\ a # tx[t].target /\ Issued(a) /\ doc[a].kind = "ADVANCE_INVOICE"
              /\ a \in tx[t].held
              /\ AppliedFrom(a) + UsedOf(tx[t].plan, a) <= doc[a].total
<1> DEFINE d == tx[t].target
           plan == tx[t].plan
           g == [f \in Docs |-> applied[<<a, f>>]]
           h == [f \in Docs |-> applied'[<<a, f>>]]
<1>0. TypeOK /\ TablesInv
  BY DEF IInv, TablesInv
<1>1. /\ d \in Docs /\ doc[d].status = "DRAFT"
      /\ plan \in Seq(Use) /\ ~DuplicateUse(plan)
      /\ \A k \in DOMAIN plan : plan[k].advance \in tx[t].held /\ Usable(plan[k])
      /\ applied' = [p \in Docs \X Docs |->
                       IF p[2] = d THEN UsedOf(plan, p[1]) ELSE applied[p]]
  BY IssueFacts DEF IssueWrites
<1>2. Traceless(d)
  BY <1>0, <1>1 DEF TablesInv, UnissuedInv, Issued
<1>3. UsedOf(plan, a) \in Nat
  BY <1>1, UsedOfFacts
<1>4. UsedOf(plan, a) # 0 =>
        /\ a # d /\ Issued(a) /\ doc[a].kind = "ADVANCE_INVOICE" /\ a \in tx[t].held
        /\ AppliedFrom(a) + UsedOf(plan, a) <= doc[a].total
  <2>1. SUFFICES ASSUME UsedOf(plan, a) # 0
                 PROVE  /\ a # d /\ Issued(a) /\ doc[a].kind = "ADVANCE_INVOICE"
                        /\ a \in tx[t].held
                        /\ AppliedFrom(a) + UsedOf(plan, a) <= doc[a].total
    OBVIOUS
  <2>2. PICK k \in DOMAIN plan : plan[k].advance = a /\ UsedOf(plan, a) = plan[k].amount
    BY <1>1, <2>1, UsedOfFacts
  <2>3. Usable(plan[k]) /\ a \in tx[t].held
    BY <1>1, <2>2
  <2>4. AppliedFrom(a) \in Nat
    BY <1>0, AppliedFromNat
  <2>5. /\ doc[a].kind = "ADVANCE_INVOICE" /\ doc[a].status = "ISSUED"
        /\ UsedOf(plan, a) + AppliedFrom(a) <= doc[a].total
    BY <2>2, <2>3 DEF Usable
  <2>6. AppliedFrom(a) + UsedOf(plan, a) <= doc[a].total
    BY <1>3, <2>4, <2>5
  <2>. QED
    BY <1>1, <2>3, <2>5, <2>6 DEF Issued
<1>5. \A f \in Docs : h[f] = IF f = d THEN UsedOf(plan, a) ELSE g[f]
  BY <1>1
<1>6. AppliedFrom(a) = SumFunctionOnSet(g, Docs) /\ AppliedFrom(a)' = SumFunctionOnSet(h, Docs)
  <2>1. DOMAIN g = Docs /\ DOMAIN h = Docs
    OBVIOUS
  <2>. QED
    BY <2>1 DEF AppliedFrom, SumFunction
<1>7. CASE a = d
  <2>1. UsedOf(plan, a) = 0
    BY <1>4, <1>7
  <2>2. \A f \in Docs : h[f] = 0
    BY <1>2, <1>5, <1>7, <2>1 DEF Traceless
  <2>3. SumFunctionOnSet(h, Docs) = 0
    <3>. HIDE DEF h
    <3>. QED  BY <2>2, SumZero, SettlementAssumption
  <2>. QED
    BY <1>4, <1>6, <1>7, <2>3
<1>8. CASE a # d
  <2>1. \A f \in Docs : g[f] \in Int
    BY <1>0 DEF TypeOK
  <2>2. g[d] = 0 /\ h[d] = UsedOf(plan, a) /\ \A f \in Docs \ {d} : h[f] = g[f]
    BY <1>1, <1>2, <1>5 DEF Traceless
  <2>3. SumFunctionOnSet(h, Docs) = SumFunctionOnSet(g, Docs) - g[d] + h[d]
    <3>1. h[d] \in Int /\ d \in Docs /\ IsFiniteSet(Docs)
      BY <1>1, <1>3, <2>2, SettlementAssumption
    <3>. HIDE DEF g, h, d
    <3>. QED  BY <2>1, <2>2, <3>1, SumChange
  <2>4. SumFunctionOnSet(g, Docs) \in Int
    BY <1>0, <1>6, AppliedFromNat
  <2>5. AppliedFrom(a)' = AppliedFrom(a) + UsedOf(plan, a)
    <3>. HIDE DEF g, h, plan, d
    <3>. QED  BY <1>3, <1>6, <2>2, <2>3, <2>4
  <2>. QED
    BY <1>4, <1>8, <2>5
<1>. QED
  BY <1>7, <1>8

\* An issue that commits keeps what is true of the tables.
LEMMA IssueTables ==
  ASSUME IInv, NEW t \in Txns, CommitIssue(t), NEW d, d = tx[t].target,
         NEW plan, plan = tx[t].plan, NEW n, n = SumOf(plan), IssueWrites(t, d, plan)
  PROVE  TablesInv'
<1>0. TypeOK /\ TablesInv
  BY DEF IInv, TablesInv
<1>1. /\ d \in Docs /\ doc[d].status = "DRAFT" /\ plan \in Seq(Use) /\ n \in Nat
      /\ doc[d].kind = "ADVANCE_INVOICE" => plan = <<>>
      /\ Issuable(t)
      /\ doc' = [doc EXCEPT ![d] = doc'[d]]
      /\ doc'[d].status = "ISSUED" /\ doc'[d].number = series
      /\ doc'[d].advance = n /\ doc'[d].kind = doc[d].kind
      /\ doc'[d].total = doc[d].total
      /\ doc'[d].credited = doc[d].credited /\ doc'[d].paid = doc[d].paid
      /\ applied' = [p \in Docs \X Docs |->
                       IF p[2] = d THEN UsedOf(plan, p[1]) ELSE applied[p]]
      /\ posting' = [posting EXCEPT ![d] = IssuePosting(d, n)]
      /\ series' = series + 1
      /\ UNCHANGED <<credits, manual, bank>>
  BY DEF IssueWrites
<1>2. /\ ~Issued(d) /\ Issued(d)' /\ Traceless(d) /\ doc[d] \in Doc
  BY <1>0, <1>1 DEF Issued, TablesInv, UnissuedInv, TypeOK
<1>3. \A e \in Docs \ {d} : doc'[e] = doc[e] /\ posting'[e] = posting[e] /\ Issued(e)' = Issued(e)
  BY <1>0, <1>1 DEF TypeOK, Issued
<1>4. posting'[d] = IssuePosting(d, n)
  BY <1>0, <1>1 DEF TypeOK
<1>5. \A a, f \in Docs : applied'[<<a, f>>] = IF f = d THEN UsedOf(plan, a) ELSE applied[<<a, f>>]
  BY <1>1
<1>6. \A a \in Docs : UsedOf(plan, a) # 0 =>
        a # d /\ Issued(a) /\ doc[a].kind = "ADVANCE_INVOICE"
  BY IssueApplied
<1>7. plan = <<>> => n = 0
  <2>1. SUFFICES ASSUME plan = <<>> PROVE n = 0
    OBVIOUS
  <2> DEFINE f == AmountsOf(plan)
  <2>2. DOMAIN f = {}
    BY <2>1 DEF AmountsOf
  <2>3. SumFunctionOnSet(f, DOMAIN f) = 0
    <3>. HIDE DEF f
    <3>. QED  BY <2>2, SumEmpty
  <2>. QED
    BY <2>3 DEF SumOf, SumFunction
<1>8. \A e \in Docs : doc'[e].total = doc[e].total /\ doc'[e].kind = doc[e].kind
                      /\ doc'[e].credited = doc[e].credited /\ doc'[e].paid = doc[e].paid
  <2>. QED  BY <1>1, <1>3
<1>10. UnissuedInv'
  <2>1. SUFFICES ASSUME NEW e \in Docs, ~Issued(e)' PROVE Traceless(e)'
    BY DEF UnissuedInv
  <2>2. e # d /\ ~Issued(e) /\ Traceless(e)
    BY <1>0, <1>2, <1>3, <2>1 DEF TablesInv, UnissuedInv
  <2>3. UsedOf(plan, e) = 0
    BY <1>6, <2>2
  <2>4. \A y \in Docs : applied'[<<e, y>>] = 0 /\ applied'[<<y, e>>] = 0
    BY <1>5, <2>2, <2>3 DEF Traceless
  <2>5. doc'[e] = doc[e] /\ posting'[e] = posting[e] /\ credits' = credits
        /\ manual' = manual /\ bank' = bank
    BY <1>1, <1>3, <2>2
  <2>. QED
    BY <2>2, <2>4, <2>5 DEF Traceless
<1>11. PostingInv'
  <2>1. SUFFICES ASSUME NEW e \in Docs, Issued(e)'
        PROVE  /\ posting'[e] = IF doc'[e].kind = "SALES_CREDIT_NOTE"
                                THEN [receivable |-> -doc'[e].total, advances |-> 0,
                                      revenue |-> doc'[e].total]
                                ELSE IssuePosting(e, doc[e].advance)'
               /\ doc'[e].kind # "SALES_INVOICE" => doc'[e].advance = 0
    BY DEF PostingInv
  <2>2. CASE e = d
    <3>1. doc'[d].kind # "SALES_CREDIT_NOTE" /\ doc'[d].kind \in Kind
      BY <1>1, <1>2 DEF Traceless, Doc
    <3>2. IssuePosting(d, doc[d].advance)' = IssuePosting(d, n)
      BY <1>1, <1>8 DEF IssuePosting
    <3>3. doc'[d].kind # "SALES_INVOICE" => doc'[d].advance = 0
      BY <1>1, <1>7, <3>1 DEF Kind
    <3>. QED
      BY <1>4, <2>2, <3>1, <3>2, <3>3
  <2>3. CASE e # d
    <3>1. Issued(e) /\ doc'[e] = doc[e] /\ posting'[e] = posting[e]
      BY <1>3, <2>1, <2>3
    <3>2. IssuePosting(e, doc[e].advance)' = IssuePosting(e, doc[e].advance)
      BY <3>1 DEF IssuePosting
    <3>. QED
      BY <1>0, <3>1, <3>2 DEF TablesInv, PostingInv
  <2>. QED
    BY <2>2, <2>3
<1>12. AppliedInv'
  <2>1. ASSUME NEW f \in Docs
        PROVE  doc'[f].advance = SumFunction([a \in Docs |-> applied'[<<a, f>>]])
    <3> DEFINE g == [a \in Docs |-> applied'[<<a, f>>]]
    <3>1. CASE f = d
      <4>1. \A a \in Docs : g[a] = UsedOf(plan, a)
        BY <1>5, <3>1
      <4>2. SumFunctionOnSet(g, Docs) = n
        <5>. HIDE DEF g
        <5>. QED  BY <1>1, <4>1, UsedOfSum
      <4>3. DOMAIN g = Docs
        OBVIOUS
      <4>. QED
        BY <1>1, <3>1, <4>2, <4>3 DEF SumFunction
    <3>2. CASE f # d
      <4>1. g = [a \in Docs |-> applied[<<a, f>>]]
        BY <1>5, <3>2
      <4>2. doc[f].advance = SumFunction(g)
        BY <1>0, <4>1 DEF TablesInv, AppliedInv
      <4>. QED
        BY <1>3, <3>2, <4>2
    <3>. QED
      BY <3>1, <3>2
  <2>2. ASSUME NEW a \in Docs, NEW f \in Docs, applied'[<<a, f>>] # 0
        PROVE  doc'[a].kind = "ADVANCE_INVOICE"
    <3>1. CASE f = d
      BY <1>5, <1>6, <1>8, <2>2, <3>1
    <3>2. CASE f # d
      BY <1>0, <1>5, <1>8, <2>2, <3>2 DEF TablesInv, AppliedInv
    <3>. QED
      BY <3>1, <3>2
  <2>. QED
    BY <2>1, <2>2 DEF AppliedInv
<1>13. CreditsInv'
  <2>1. \A p \in credits : p[2] \in Docs
    BY <1>0 DEF TypeOK
  <2>. QED
    BY <1>0, <1>1, <1>8, <2>1 DEF TablesInv, CreditsInv
<1>14. AdvancesNotOverdrawn'
  <2>1. SUFFICES ASSUME NEW a \in Docs, Issued(a)' PROVE AppliedFrom(a)' <= doc'[a].total
    BY DEF AdvancesNotOverdrawn
  <2>2. CASE a = d
    <3>1. AppliedFrom(a)' = 0
      BY <2>2, IssueApplied
    <3>2. doc'[a].total \in Nat
      BY <1>1, <1>2, <2>2 DEF Doc
    <3>. QED
      BY <3>1, <3>2
  <2>3. CASE a # d
    <3>1. AppliedFrom(a)' = AppliedFrom(a) + UsedOf(plan, a)
      BY <2>3, IssueApplied
    <3>2. CASE UsedOf(plan, a) = 0
      <4>1. AppliedFrom(a) <= doc[a].total /\ AppliedFrom(a) \in Nat
        BY <1>0, <1>3, <2>1, <2>3, AppliedFromNat DEF TablesInv, AdvancesNotOverdrawn
      <4>. QED
        BY <1>8, <3>1, <3>2, <4>1
    <3>3. CASE UsedOf(plan, a) # 0
      BY <1>8, <3>1, <3>3, IssueApplied
    <3>. QED
      BY <3>2, <3>3
  <2>. QED
    BY <2>2, <2>3
<1>15. InvoiceNumbersGapless'
  <2>1. \A e \in Docs : ~Issued(e) => doc[e].number = 0
    BY <1>0 DEF TablesInv, UnissuedInv, Traceless
  <2>2. \A e \in Docs \ {d} : Issued(e)' = Issued(e) /\ doc'[e].number = doc[e].number
    BY <1>3
  <2>3. InvoiceNumbersGapless /\ series > 0
    BY <1>0 DEF TablesInv
  <2>. QED
    BY <1>0, <1>1, <1>2, <2>1, <2>2, <2>3, NumberDrawn
<1>16. CreditsAddUp'
  <2>1. [c \in Docs |-> doc'[c].total] = [c \in Docs |-> doc[c].total]
    BY <1>8
  <2>2. \A e \in Docs : NotesOf(e)' = NotesOf(e) /\ NotesTotal(e)' = NotesTotal(e)
    BY <1>1, <2>1 DEF NotesOf, NotesTotal
  <2>3. ASSUME NEW e \in Docs, Issued(e)'
        PROVE  /\ NotesTotal(e)' <= doc'[e].total - doc'[e].advance
               /\ doc'[e].credited = NotesTotal(e)' \/ WrittenOff(e)'
               /\ doc'[e].status = "CREDITED" <=> NotesOf(e)' # {} /\ Creditable(e)' <= 1
    <3>1. CASE e = d
      <4>1. NotesOf(d) = {}
        BY <1>2 DEF NotesOf, Traceless
      <4>2. NotesTotal(d) = 0
        BY <4>1, SumEmpty DEF NotesTotal
      <4>3. doc'[d].credited = 0
        BY <1>1, <1>2 DEF Traceless
      <4>4. n <= doc[d].total /\ doc[d].total \in Nat
        BY <1>1, <1>2 DEF Issuable, Doc
      <4>6. 0 <= doc'[d].total - doc'[d].advance
        BY <1>1, <4>4
      <4>. QED
        BY <1>1, <2>2, <3>1, <4>1, <4>2, <4>3, <4>6
    <3>2. CASE e # d
      <4>1. Issued(e) /\ doc'[e] = doc[e]
        BY <1>3, <2>3, <3>2
      <4>2. Creditable(e)' = Creditable(e)
        BY <4>1 DEF Creditable
      <4>3. WrittenOff(e) => WrittenOff(e)'
        BY <2>2, <4>1 DEF WrittenOff
      <4>. QED
        BY <1>0, <2>2, <4>1, <4>2, <4>3 DEF TablesInv, CreditsAddUp
    <3>. QED
      BY <3>1, <3>2
  <2>. QED
    BY <2>3 DEF CreditsAddUp
<1>17. PaidOnce'
  <2>1. \A e \in Docs : PaidByBank(e)' = PaidByBank(e)
    BY <1>1 DEF PaidByBank, Settles
  <2>. QED
    BY <1>0, <1>1, <1>8, <2>1 DEF TablesInv, PaidOnce
<1>18. series' > 0
  BY <1>0, <1>1 DEF TypeOK
<1>. QED
  BY <1>10, <1>11, <1>12, <1>13, <1>14, <1>15, <1>16, <1>17, <1>18 DEF TablesInv

\* The same, of the transaction that issues.
LEMMA IssueKeeps ==
  ASSUME IInv, NEW t \in Txns, CommitIssue(t)
  PROVE  TablesInv'
BY IssueTables, IssueFacts

\* The other transactions hold none of the rows a transaction writes.
LEMMA IssueFrame ==
  ASSUME IInv, NEW t \in Txns, CommitIssue(t), NEW u \in Txns \ {t}
  PROVE  Frame(u)
<1> DEFINE d == tx[t].target
<1>0. TypeOK /\ LocksApart
  BY DEF IInv
<1>1. /\ d \in Docs /\ d \in tx[t].held /\ Books \in tx[t].held
      /\ doc' = [doc EXCEPT ![d] = doc'[d]] /\ tx' = [tx EXCEPT ![t] = Idle]
      /\ UNCHANGED <<credits, manual, bank>>
  BY IssueFacts DEF IssueWrites
<1>2. \A r \in tx[t].held : r \notin tx[u].held
  BY <1>0 DEF LocksApart
<1>3. ASSUME NEW a \in Docs, a \in tx[u].held
      PROVE  doc'[a] = doc[a] /\ AppliedFrom(a)' = AppliedFrom(a)
  <2>1. a # d /\ a \notin tx[t].held
    BY <1>1, <1>2, <1>3
  <2>2. UsedOf(tx[t].plan, a) = 0
    BY <2>1, IssueApplied
  <2>3. AppliedFrom(a)' = AppliedFrom(a) + 0
    BY <2>1, <2>2, IssueApplied
  <2>4. AppliedFrom(a) \in Nat
    BY <1>0, AppliedFromNat
  <2>5. doc'[a] = doc[a]
    BY <1>0, <1>1, <2>1 DEF TypeOK
  <2>. QED
    BY <2>3, <2>4, <2>5
<1>4. tx'[u] = tx[u] /\ Books \notin tx[u].held
  BY <1>0, <1>1, <1>2 DEF TypeOK
<1>5. \A a \in Docs : NotesOf(a)' = NotesOf(a)
  BY <1>1 DEF NotesOf
<1>. QED
  BY <1>1, <1>3, <1>4, <1>5 DEF Frame

(***************************************************************************)
(* Crediting.                                                              *)
(***************************************************************************)

\* The rows a credit note writes.
LEMMA CreditRows ==
  ASSUME IInv, NEW t \in Txns, NEW o, NEW c, NEW amount, NEW whole,
         CreditWrites(t, o, c, amount, whole)
  PROVE  /\ \A e \in Docs \ {o, c} : doc'[e] = doc[e]
         /\ posting'[c] = [receivable |-> -amount, advances |-> 0, revenue |-> amount]
         /\ \A e \in Docs \ {c} : posting'[e] = posting[e]
         /\ doc'[c].status = "ISSUED" /\ doc'[c].kind = "SALES_CREDIT_NOTE"
         /\ doc'[c].total = amount /\ doc'[c].number = series
         /\ doc'[c].advance = 0 /\ doc'[c].credited = 0 /\ doc'[c].paid = 0
         /\ whole => doc'[o].credited = doc[o].total /\ doc'[o].status = "CREDITED"
         /\ ~whole => doc'[o].credited = doc[o].credited + amount
         /\ ~whole => doc'[o].status = IF FullyCredited(o, doc'[o].credited) THEN "CREDITED"
                                   ELSE "ISSUED"
         /\ doc'[o].kind = doc[o].kind /\ doc'[o].total = doc[o].total
         /\ doc'[o].advance = doc[o].advance /\ doc'[o].paid = doc[o].paid
         /\ doc'[o].number = doc[o].number
<1>0. TypeOK
  BY DEF IInv
<1>1. /\ o \in Docs /\ c \in Docs /\ o # c /\ amount \in Nat /\ doc[o].status = "ISSUED"
      /\ whole \in BOOLEAN
      /\ doc' = [doc EXCEPT ![c] = NoteDoc(amount, series), ![o] = Credited(o, amount, whole)]
      /\ posting' = [posting EXCEPT
           ![c] = [receivable |-> -amount, advances |-> 0, revenue |-> amount]]
  BY DEF CreditWrites
<1>2. /\ doc'[c] = NoteDoc(amount, series) /\ doc'[o] = Credited(o, amount, whole)
      /\ \A e \in Docs \ {o, c} : doc'[e] = doc[e]
  BY <1>0, <1>1 DEF TypeOK
<1>3. /\ posting'[c] = [receivable |-> -amount, advances |-> 0, revenue |-> amount]
      /\ \A e \in Docs \ {c} : posting'[e] = posting[e]
  BY <1>0, <1>1 DEF TypeOK
<1> DEFINE x == Credited(o, amount, whole)
           y == NoteDoc(amount, series)
<1>4. /\ y.status = "ISSUED" /\ y.kind = "SALES_CREDIT_NOTE"
      /\ y.total = amount /\ y.number = series
      /\ y.advance = 0 /\ y.credited = 0 /\ y.paid = 0
  BY <1>0, <1>1, NoteDocType DEF TypeOK
<1>5. /\ x \in Doc
      /\ whole => x.credited = doc[o].total /\ x.status = "CREDITED"
      /\ ~whole => x.credited = doc[o].credited + amount
      /\ ~whole => x.status = IF FullyCredited(o, x.credited) THEN "CREDITED"
                             ELSE doc[o].status
      /\ x.paid = doc[o].paid
      /\ x = [doc[o] EXCEPT !.status = x.status, !.payment = x.payment,
                            !.paid = x.paid, !.credited = x.credited]
  <2>1. x = Credited(o, amount, whole)
    OBVIOUS
  <2>2. o \in Docs /\ amount \in Nat /\ whole \in BOOLEAN
    BY <1>1
  <2>3. CreditedFields(o, amount, whole, Credited(o, amount, whole))
    BY <1>0, <2>2, CreditedType, Zenon
  <2>. HIDE DEF x
  <2>. QED  BY <2>1, <2>3 DEF CreditedFields
<1>6. /\ x.kind = doc[o].kind /\ x.total = doc[o].total
      /\ x.advance = doc[o].advance /\ x.number = doc[o].number
  <2>1. doc[o] \in Doc
    BY <1>0, <1>1 DEF TypeOK
  <2>. HIDE DEF x
  <2>. QED  BY <1>5, <2>1 DEF Doc
<1>. QED
  <2>. HIDE DEF x, y
  <2>1. doc'[c] = y /\ doc'[o] = x
    BY <1>2 DEF x, y
  <2>. QED
    BY <1>1, <1>2, <1>3, <1>4, <1>5, <1>6, <2>1

\* A credit note that commits keeps what is true of the tables.
LEMMA CreditTables ==
  ASSUME IInv, NEW t \in Txns, NEW o, NEW c, NEW amount, NEW whole,
         CreditWrites(t, o, c, amount, whole)
  PROVE  TablesInv'
<1>0. TypeOK /\ TablesInv
  BY DEF IInv, TablesInv
<1>1. /\ o \in Docs /\ c \in Docs /\ o # c
      /\ doc[o].status = "ISSUED" /\ doc[c].status = "ABSENT"
      /\ amount \in Nat /\ amount > 0 /\ whole \in BOOLEAN
      /\ IF whole THEN NotesOf(o) = {} /\ WholeAllowed(o) ELSE amount <= Creditable(o)
      /\ LinkValid(o, amount)
      /\ credits' = credits \union {<<o, c>>}
      /\ series' = series + 1
      /\ UNCHANGED <<applied, manual, bank>>
  BY DEF CreditWrites
<1>2. /\ \A e \in Docs \ {o, c} : doc'[e] = doc[e]
      /\ posting'[c] = [receivable |-> -amount, advances |-> 0, revenue |-> amount]
      /\ \A e \in Docs \ {c} : posting'[e] = posting[e]
      /\ doc'[c].status = "ISSUED" /\ doc'[c].kind = "SALES_CREDIT_NOTE"
      /\ doc'[c].total = amount /\ doc'[c].number = series
      /\ doc'[c].advance = 0 /\ doc'[c].credited = 0 /\ doc'[c].paid = 0
      /\ whole => doc'[o].credited = doc[o].total /\ doc'[o].status = "CREDITED"
      /\ ~whole => doc'[o].credited = doc[o].credited + amount
      /\ ~whole => doc'[o].status = IF FullyCredited(o, doc'[o].credited) THEN "CREDITED"
                                ELSE "ISSUED"
      /\ doc'[o].kind = doc[o].kind /\ doc'[o].total = doc[o].total
      /\ doc'[o].advance = doc[o].advance /\ doc'[o].paid = doc[o].paid
      /\ doc'[o].number = doc[o].number
  BY CreditRows
<1>3. /\ ~Issued(c) /\ Issued(c)' /\ Issued(o) /\ Issued(o)' /\ Traceless(c)
      /\ \A e \in Docs \ {c} : Issued(e)' = Issued(e)
  <2>1. ~Issued(c) /\ Issued(c)' /\ Issued(o) /\ Issued(o)'
    BY <1>1, <1>2 DEF Issued
  <2>2. \A e \in Docs \ {c} : Issued(e)' = Issued(e)
    BY <1>2, <2>1 DEF Issued
  <2>3. Traceless(c)
    BY <1>0, <1>1, <2>1 DEF TablesInv, UnissuedInv
  <2>. QED
    BY <2>1, <2>2, <2>3
<1>4. \A e \in Docs \ {c} : /\ doc'[e].total = doc[e].total /\ doc'[e].kind = doc[e].kind
                            /\ doc'[e].advance = doc[e].advance
                            /\ doc'[e].paid = doc[e].paid /\ doc'[e].number = doc[e].number
  BY <1>2
<1>5. doc[c].advance = 0 /\ doc[c].paid = 0
  BY <1>3 DEF Traceless
<1>10. UnissuedInv'
  <2>1. SUFFICES ASSUME NEW e \in Docs, ~Issued(e)' PROVE Traceless(e)'
    BY DEF UnissuedInv
  <2>2. e # c /\ e # o /\ ~Issued(e) /\ Traceless(e)
    BY <1>0, <1>3, <2>1 DEF TablesInv, UnissuedInv
  <2>3. doc'[e] = doc[e] /\ posting'[e] = posting[e]
    BY <1>2, <2>2
  <2>4. \A y \in Docs : <<e, y>> \notin credits' /\ <<y, e>> \notin credits'
    <3>1. SUFFICES ASSUME NEW y \in Docs PROVE <<e, y>> \notin credits' /\ <<y, e>> \notin credits'
      OBVIOUS
    <3>2. <<e, y>> # <<o, c>> /\ <<y, e>> # <<o, c>>
      BY <2>2
    <3>3. <<e, y>> \notin credits /\ <<y, e>> \notin credits
      BY <2>2 DEF Traceless
    <3>. QED
      BY <1>1, <3>2, <3>3
  <2>. QED
    BY <1>1, <2>2, <2>3, <2>4 DEF Traceless
<1>11. PostingInv'
  <2>1. SUFFICES ASSUME NEW e \in Docs, Issued(e)'
        PROVE  /\ posting'[e] = IF doc'[e].kind = "SALES_CREDIT_NOTE"
                                THEN [receivable |-> -doc'[e].total, advances |-> 0,
                                      revenue |-> doc'[e].total]
                                ELSE IssuePosting(e, doc[e].advance)'
               /\ doc'[e].kind # "SALES_INVOICE" => doc'[e].advance = 0
    BY DEF PostingInv
  <2>2. CASE e = c
    BY <1>2, <2>2
  <2>3. CASE e # c
    <3>1. Issued(e) /\ posting'[e] = posting[e]
      BY <1>2, <1>3, <2>1, <2>3
    <3>2. IssuePosting(e, doc[e].advance)' = IssuePosting(e, doc[e].advance)
      BY <1>4, <2>3 DEF IssuePosting
    <3>3. doc'[e].total = doc[e].total /\ doc'[e].kind = doc[e].kind
          /\ doc'[e].advance = doc[e].advance
      BY <1>4, <2>3
    <3>4. /\ posting[e] = IF doc[e].kind = "SALES_CREDIT_NOTE"
                          THEN [receivable |-> -doc[e].total, advances |-> 0,
                                revenue |-> doc[e].total]
                          ELSE IssuePosting(e, doc[e].advance)
          /\ doc[e].kind # "SALES_INVOICE" => doc[e].advance = 0
      BY <1>0, <3>1 DEF TablesInv, PostingInv
    <3>. QED
      BY <3>1, <3>2, <3>3, <3>4
  <2>. QED
    BY <2>2, <2>3
<1>12. AppliedInv'
  <2>1. ASSUME NEW f \in Docs
        PROVE  doc'[f].advance = SumFunction([a \in Docs |-> applied'[<<a, f>>]])
    <3>1. doc'[f].advance = doc[f].advance
      BY <1>2, <1>4, <1>5
    <3>. QED
      BY <1>0, <1>1, <3>1 DEF TablesInv, AppliedInv
  <2>2. ASSUME NEW a \in Docs, NEW f \in Docs, applied'[<<a, f>>] # 0
        PROVE  doc'[a].kind = "ADVANCE_INVOICE"
    <3>1. a # c
      BY <1>1, <1>3, <2>2 DEF Traceless
    <3>. QED
      BY <1>0, <1>1, <1>4, <2>2, <3>1 DEF TablesInv, AppliedInv
  <2>. QED
    BY <2>1, <2>2 DEF AppliedInv
<1>13. CreditsInv'
  <2>1. SUFFICES ASSUME NEW p \in credits' PROVE doc'[p[2]].kind = "SALES_CREDIT_NOTE"
    BY DEF CreditsInv
  <2>2. CASE p = <<o, c>>
    BY <1>2, <2>2
  <2>3. CASE p \in credits
    <3>1. p = <<p[1], p[2]>> /\ p[1] \in Docs /\ p[2] \in Docs
      <4>1. \A q \in Docs \X Docs : q = <<q[1], q[2]>> /\ q[1] \in Docs /\ q[2] \in Docs
        OBVIOUS
      <4>. QED
        BY <1>0, <2>3, <4>1 DEF TypeOK
    <3>2. p[2] # c
      <4>1. \A y \in Docs : <<y, c>> \notin credits
        BY <1>3 DEF Traceless
      <4>. QED
        BY <2>3, <3>1, <4>1, Zenon
    <3>3. doc[p[2]].kind = "SALES_CREDIT_NOTE"
      BY <1>0, <2>3 DEF TablesInv, CreditsInv
    <3>. QED
      BY <1>4, <3>1, <3>2, <3>3
  <2>. QED
    BY <1>1, <2>1, <2>2, <2>3
<1>14. AdvancesNotOverdrawn'
  <2>1. SUFFICES ASSUME NEW a \in Docs, Issued(a)' PROVE AppliedFrom(a)' <= doc'[a].total
    BY DEF AdvancesNotOverdrawn
  <2>2. AppliedFrom(a)' = AppliedFrom(a)
    BY <1>1 DEF AppliedFrom
  <2>3. CASE a = c
    <3>1. AppliedFrom(c) = 0
      BY <1>1, <1>3, AppliedFromZero DEF Traceless
    <3>. QED
      BY <1>1, <1>2, <2>2, <2>3, <3>1
  <2>4. CASE a # c
    <3>1. Issued(a) /\ doc'[a].total = doc[a].total
      BY <1>3, <1>4, <2>1, <2>4
    <3>. QED
      BY <1>0, <2>2, <3>1 DEF TablesInv, AdvancesNotOverdrawn
  <2>. QED
    BY <2>3, <2>4
<1>15. InvoiceNumbersGapless'
  <2>1. \A e \in Docs : ~Issued(e) => doc[e].number = 0
    BY <1>0 DEF TablesInv, UnissuedInv, Traceless
  <2>2. \A e \in Docs \ {c} : Issued(e)' = Issued(e) /\ doc'[e].number = doc[e].number
    BY <1>3, <1>4
  <2>3. InvoiceNumbersGapless /\ series > 0
    BY <1>0 DEF TablesInv
  <2>. QED
    BY <1>0, <1>1, <1>2, <1>3, <2>1, <2>2, <2>3, NumberDrawn
<1>16. CreditsAddUp'
  <2> DEFINE f == [x \in Docs |-> doc[x].total]
             g == [x \in Docs |-> doc'[x].total]
  <2>1. \A e \in Docs : NotesOf(e) \subseteq Docs /\ c \notin NotesOf(e) /\ IsFiniteSet(NotesOf(e))
    <3>1. \A e \in Docs : NotesOf(e) \subseteq Docs /\ c \notin NotesOf(e)
      BY <1>3 DEF NotesOf, Traceless
    <3>. QED
      BY <3>1, SettlementAssumption, FS_Subset
  <2>2. \A e \in Docs : /\ NotesTotal(e) = SumFunctionOnSet(f, NotesOf(e))
                        /\ NotesTotal(e)' = SumFunctionOnSet(g, NotesOf(e)')
    BY DEF NotesTotal
  <2>3. \A e \in Docs : SumFunctionOnSet(g, NotesOf(e)) = NotesTotal(e)
    <3>1. SUFFICES ASSUME NEW e \in Docs PROVE SumFunctionOnSet(g, NotesOf(e)) = NotesTotal(e)
      OBVIOUS
    <3>2. \A x \in NotesOf(e) : g[x] = f[x]
      BY <1>4, <2>1
    <3>3. SumFunctionOnSet(g, NotesOf(e)) = SumFunctionOnSet(f, NotesOf(e))
      <4>. HIDE DEF f, g
      <4>. QED  BY <2>1, <3>2, SumSame
    <3>. QED
      BY <2>2, <3>3
  <2>4. ASSUME NEW e \in Docs \ {o}
        PROVE  NotesOf(e)' = NotesOf(e) /\ NotesTotal(e)' = NotesTotal(e)
    <3>1. NotesOf(e)' = NotesOf(e)
      BY <1>1 DEF NotesOf
    <3>. QED
      BY <2>2, <2>3, <3>1
  <2>5. NotesOf(o)' = NotesOf(o) \union {c}
    BY <1>1 DEF NotesOf
  <2>6. NotesTotal(o)' = NotesTotal(o) + amount
    <3>1. \A x \in NotesOf(o) : g[x] \in Int
      <4>1. \A x \in NotesOf(o) : x \in Docs \ {c} /\ doc'[x].total = doc[x].total
        BY <1>1, <1>4, <2>1
      <4>2. \A x \in Docs : doc[x].total \in Nat
        BY <1>0 DEF TypeOK, Doc
      <4>. QED
        BY <4>1, <4>2
    <3>2. g[c] = amount /\ g[c] \in Int
      BY <1>1, <1>2
    <3>3. SumFunctionOnSet(g, NotesOf(o) \union {c}) = SumFunctionOnSet(g, NotesOf(o)) + g[c]
      <4>. HIDE DEF g
      <4>. QED  BY <1>1, <2>1, <3>1, <3>2, SumAdd
    <3>. QED
      BY <1>1, <2>2, <2>3, <2>5, <3>2, <3>3
  <2>7. ASSUME NEW e \in Docs, Issued(e)'
        PROVE  /\ NotesTotal(e)' <= doc'[e].total - doc'[e].advance
               /\ doc'[e].credited = NotesTotal(e)' \/ WrittenOff(e)'
               /\ doc'[e].status = "CREDITED" <=> NotesOf(e)' # {} /\ Creditable(e)' <= 1
    <3>1. CASE e = c
      <4>1. NotesOf(c) = {}
        BY <1>3 DEF NotesOf, Traceless
      <4>2. NotesTotal(c)' = 0 /\ NotesOf(c)' = {}
        BY <1>1, <2>2, <2>4, <4>1, SumEmpty
      <4>. QED
        BY <1>1, <1>2, <3>1, <4>2
    <3>2. CASE e = o
      <4>1. doc[o].credited = NotesTotal(o)
        BY <1>0, <1>1, <1>3 DEF TablesInv, CreditsAddUp, WrittenOff
      <4>2. doc[o].total \in Nat /\ doc[o].advance \in Nat /\ doc[o].credited \in Nat
        BY <1>0, <1>1 DEF TypeOK, Doc
      <4>3. NotesTotal(o)' <= doc'[o].total - doc'[o].advance
        BY <1>1, <1>2, <2>6, <4>1, <4>2 DEF LinkValid
      <4>4. NotesOf(o)' # {}
        BY <2>5
      <4>5. CASE whole
        <5>1. Creditable(o)' <= 1
          BY <1>2, <4>2, <4>5 DEF Creditable
        <5>2. \A x, y \in NotesOf(o)' : x = y
          BY <1>1, <2>5, <4>5
        <5>3. WrittenOff(o)'
          BY <1>2, <4>5, <5>2 DEF WrittenOff
        <5>. QED
          BY <1>2, <3>2, <4>3, <4>4, <4>5, <5>1, <5>3
      <4>6. CASE ~whole
        <5>1. Creditable(o)' = doc[o].total - doc[o].advance - (doc[o].credited + amount)
          BY <1>2, <4>6 DEF Creditable
        <5>2. FullyCredited(o, doc'[o].credited) <=> Creditable(o)' <= 1
          BY <1>1, <1>2, <4>2, <4>6, <5>1 DEF FullyCredited
        <5>. QED
          BY <1>2, <2>6, <3>2, <4>1, <4>3, <4>4, <4>6, <5>2
      <4>. QED
        BY <4>5, <4>6
    <3>3. CASE e # c /\ e # o
      <4>1. Issued(e) /\ doc'[e] = doc[e]
        BY <1>2, <1>3, <2>7, <3>3
      <4>2. Creditable(e)' = Creditable(e)
        BY <4>1 DEF Creditable
      <4>3. NotesOf(e)' = NotesOf(e) /\ NotesTotal(e)' = NotesTotal(e)
        BY <2>4, <3>3
      <4>4. WrittenOff(e) => WrittenOff(e)'
        BY <4>1, <4>3 DEF WrittenOff
      <4>. QED
        BY <1>0, <4>1, <4>2, <4>3, <4>4 DEF TablesInv, CreditsAddUp
    <3>. QED
      BY <3>1, <3>2, <3>3
  <2>. QED
    BY <2>7 DEF CreditsAddUp
<1>17. PaidOnce'
  <2>1. \A e \in Docs : PaidByBank(e)' = PaidByBank(e)
    BY <1>1 DEF PaidByBank, Settles
  <2>2. \A e \in Docs : doc'[e].paid = doc[e].paid
    BY <1>2, <1>4, <1>5
  <2>. QED
    BY <1>0, <1>1, <2>1, <2>2 DEF TablesInv, PaidOnce
<1>18. series' > 0
  BY <1>0, <1>1 DEF TypeOK
<1>. QED
  BY <1>10, <1>11, <1>12, <1>13, <1>14, <1>15, <1>16, <1>17, <1>18 DEF TablesInv

\* What a credit note writes, no other open transaction relies on.
LEMMA CreditFrame ==
  ASSUME IInv, NEW t \in Txns, NEW o, NEW c, NEW amount, NEW whole,
         CreditWrites(t, o, c, amount, whole),
         NEW u \in Txns \ {t}
  PROVE  Frame(u)
<1>0. TypeOK /\ LocksApart
  BY DEF IInv
<1>1. /\ o \in tx[t].held /\ c \in tx[t].held /\ Books \in tx[t].held
      /\ tx' = [tx EXCEPT ![t] = Idle] /\ UNCHANGED <<applied, manual, bank>>
  BY DEF CreditWrites
<1>2. \A r \in tx[t].held : r \notin tx[u].held
  BY <1>0 DEF LocksApart
<1>3. \A e \in Docs \ {o, c} : doc'[e] = doc[e]
  BY <1>0 DEF CreditWrites, TypeOK
<1>4. tx'[u] = tx[u]
  BY <1>0, <1>1 DEF TypeOK
<1>5. \A e \in Docs : AppliedFrom(e)' = AppliedFrom(e)
  BY <1>1 DEF AppliedFrom
<1>6. \A e \in Docs : e # o => NotesOf(e)' = NotesOf(e)
  BY DEF CreditWrites, NotesOf
<1>7. \A e \in Docs : e \in tx[u].held => e # o /\ e # c
  BY <1>1, <1>2
<1>. QED
  BY <1>1, <1>2, <1>3, <1>4, <1>5, <1>6, <1>7 DEF Frame

(***************************************************************************)
(* Reconciling, and the invariant.                                         *)
(***************************************************************************)

\* A reconciliation that commits keeps what is true of the tables.
LEMMA ReconcileTables ==
  ASSUME IInv, NEW t \in Txns, NEW b, NEW x, ReconcileWrites(t, b, x)
  PROVE  TablesInv'
<1>0. TypeOK /\ TablesInv
  BY DEF IInv, TablesInv
<1>1. /\ b \in Banks /\ bank[b].status # "POSTED"
      /\ bank[b].allocations \in Seq(Allocation) /\ Len(bank[b].allocations) = 1
      /\ x = bank[b].allocations[1] /\ x.amount \in Nat
      /\ x.target # NoDoc => x.target \in Docs /\ doc[x.target].status = "ISSUED"
      /\ doc' = IF x.target = NoDoc THEN doc
                ELSE [doc EXCEPT ![x.target] = Paid(x.target, x.amount)]
      /\ bank' = [bank EXCEPT ![b].status = "POSTED"]
      /\ UNCHANGED <<applied, credits, posting, series, manual>>
  BY DEF ReconcileWrites
<1>2. /\ bank'[b].status = "POSTED" /\ bank'[b].allocations = bank[b].allocations
      /\ \A c \in Banks \ {b} : bank'[c] = bank[c]
  BY <1>0, <1>1 DEF TypeOK
<1>3. \A e \in Docs :
        /\ doc'[e].status = doc[e].status /\ doc'[e].kind = doc[e].kind
        /\ doc'[e].total = doc[e].total /\ doc'[e].advance = doc[e].advance
        /\ doc'[e].credited = doc[e].credited /\ doc'[e].number = doc[e].number
        /\ doc'[e].paid = IF e = x.target THEN doc[e].paid + x.amount ELSE doc[e].paid
        /\ e # x.target => doc'[e] = doc[e]
  <2>1. CASE x.target = NoDoc
    BY <1>1, <2>1, SettlementAssumption
  <2>2. CASE x.target # NoDoc
    <3> DEFINE d == x.target
    <3>1. d \in Docs /\ doc' = [doc EXCEPT ![d] = Paid(d, x.amount)]
      BY <1>1, <2>2
    <3>2. /\ doc'[d].paid = doc[d].paid + x.amount
          /\ \A e \in Docs \ {d} : doc'[e] = doc[e]
          /\ \A e \in Docs :
              /\ doc'[e].status = doc[e].status /\ doc'[e].kind = doc[e].kind
              /\ doc'[e].total = doc[e].total /\ doc'[e].advance = doc[e].advance
              /\ doc'[e].credited = doc[e].credited /\ doc'[e].number = doc[e].number
      BY <1>0, <1>1, <3>1, PaidFields
    <3>. QED
      BY <3>2
  <2>. QED
    BY <2>1, <2>2
<1>4. \A e \in Docs : Issued(e)' = Issued(e)
  BY <1>3 DEF Issued
<1>5. x.target \in Docs => Issued(x.target)
  BY <1>1, SettlementAssumption DEF Issued
<1>6. /\ PostingInv' /\ AppliedInv' /\ CreditsInv' /\ AdvancesNotOverdrawn'
      /\ InvoiceNumbersGapless' /\ CreditsAddUp' /\ series' > 0
  BY <1>1, <1>3, InvoicesKept
<1>7. UnissuedInv'
  <2>1. SUFFICES ASSUME NEW e \in Docs, ~Issued(e)' PROVE Traceless(e)'
    BY DEF UnissuedInv
  <2>2. e # x.target /\ Traceless(e)
    BY <1>0, <1>4, <1>5, <2>1 DEF TablesInv, UnissuedInv
  <2>3. doc'[e] = doc[e]
    BY <1>3, <2>2
  <2>4. \A c \in Banks : \A k \in DOMAIN bank'[c].allocations :
          bank'[c].allocations[k].target # e
    BY <1>2, <2>2 DEF Traceless
  <2>. QED
    BY <1>1, <2>2, <2>3, <2>4 DEF Traceless
<1>8. PaidOnce'
  <2>1. SUFFICES ASSUME NEW d \in Docs PROVE doc'[d].paid = manual[d] + PaidByBank(d)'
    BY <1>1 DEF PaidOnce
  <2> DEFINE S == {c \in Banks : bank[c].status = "POSTED"}
             f == [c \in Banks |-> Settles(c, d)]
             g == [c \in Banks |-> Settles(c, d)']
  <2>2. {c \in Banks : bank'[c].status = "POSTED"} = S \union {b}
    BY <1>1, <1>2
  <2>3. \A c \in Banks : g[c] = f[c]
    BY <1>2 DEF Settles
  <2>4. \A c \in Banks : f[c] \in Nat
    BY <1>0, SettlesNat
  <2>5. IsFiniteSet(S) /\ b \notin S
    BY <1>1, SettlementAssumption, FS_Subset
  <2>6. f[b] = IF d = x.target THEN x.amount ELSE 0
    <3> DEFINE s == bank[b].allocations
               h == AmountsOf(s)
               T == {k \in DOMAIN s : s[k].target = d}
    <3>1. DOMAIN s = {1} /\ s[1] = x
      <4>1. DOMAIN s = 1 .. 1
        BY <1>1, ElementType
      <4>. QED
        BY <1>1, <4>1
    <3>2. f[b] = SumFunctionOnSet(h, T)
      BY <1>1 DEF Settles
    <3>3. h[1] = x.amount
      BY <3>1 DEF AmountsOf
    <3>4. CASE d = x.target
      <4>1. T = {1}
        BY <3>1, <3>4
      <4>2. SumFunctionOnSet(h, T) = h[1]
        <5>1. h[1] \in Int
          BY <1>1, <3>3
        <5>. HIDE DEF h, T
        <5>. QED  BY <4>1, <5>1, SumOne
      <4>. QED
        BY <3>2, <3>3, <3>4, <4>2
    <3>5. CASE d # x.target
      <4>1. T = {}
        BY <3>1, <3>5
      <4>2. SumFunctionOnSet(h, T) = 0
        <5>. HIDE DEF h, T
        <5>. QED  BY <4>1, SumEmpty
      <4>. QED
        BY <3>2, <3>5, <4>2
    <3>. QED
      BY <3>4, <3>5
  <2>7. PaidByBank(d)' = PaidByBank(d) + f[b]
    <3>1. PaidByBank(d) = SumFunctionOnSet(f, S)
      BY DEF PaidByBank
    <3>2. PaidByBank(d)' = SumFunctionOnSet(g, S \union {b})
      BY <2>2 DEF PaidByBank
    <3>3. \A c \in S \union {b} : g[c] = f[c]
      BY <1>1, <2>3
    <3>4. IsFiniteSet(S \union {b})
      BY <2>5, FS_AddElement
    <3>5. (\A c \in S : f[c] \in Int) /\ f[b] \in Int
      BY <1>1, <2>4
    <3>6. SumFunctionOnSet(g, S \union {b}) = SumFunctionOnSet(f, S \union {b})
      <4>. HIDE DEF f, g, S
      <4>. QED  BY <3>3, <3>4, SumSame
    <3>7. SumFunctionOnSet(f, S \union {b}) = SumFunctionOnSet(f, S) + f[b]
      <4>. HIDE DEF f, S
      <4>. QED  BY <2>5, <3>5, SumAdd
    <3>. QED
      BY <3>1, <3>2, <3>6, <3>7
  <2>8. doc[d].paid = manual[d] + PaidByBank(d)
    BY <1>0 DEF TablesInv, PaidOnce
  <2>9. /\ manual[d] \in Nat /\ PaidByBank(d) \in Nat /\ f[b] \in Nat
        /\ doc'[d].paid = IF d = x.target THEN doc[d].paid + x.amount ELSE doc[d].paid
    BY <1>0, <1>1, <1>3, <2>4, PaidByBankNat DEF TypeOK
  <2>. QED
    <3>. HIDE DEF f
    <3>. QED  BY <1>1, <2>6, <2>7, <2>8, <2>9
<1>. QED
  BY <1>6, <1>7, <1>8 DEF TablesInv

\* What a reconciliation writes, no other open transaction relies on.
LEMMA ReconcileFrame ==
  ASSUME IInv, NEW t \in Txns, NEW b, NEW x, ReconcileWrites(t, b, x), NEW u \in Txns \ {t}
  PROVE  Frame(u)
<1>0. TypeOK /\ LocksApart
  BY DEF IInv
<1>1. /\ b \in tx[t].held
      /\ x.target # NoDoc => x.target \in Docs /\ x.target \in tx[t].held
      /\ doc' = IF x.target = NoDoc THEN doc
                ELSE [doc EXCEPT ![x.target] = Paid(x.target, x.amount)]
      /\ bank' = [bank EXCEPT ![b].status = "POSTED"]
      /\ tx' = [tx EXCEPT ![t] = Idle] /\ UNCHANGED <<applied, credits, series>>
  BY DEF ReconcileWrites
<1>2. \A r \in tx[t].held : r \notin tx[u].held
  BY <1>0 DEF LocksApart
<1>3. \A e \in Docs : e \in tx[u].held => doc'[e] = doc[e]
  BY <1>0, <1>1, <1>2 DEF TypeOK
<1>4. \A c \in Banks : c \in tx[u].held => bank'[c] = bank[c]
  BY <1>0, <1>1, <1>2 DEF TypeOK
<1>5. tx'[u] = tx[u]
  BY <1>0, <1>1 DEF TypeOK
<1>6. \A e \in Docs : AppliedFrom(e)' = AppliedFrom(e) /\ NotesOf(e)' = NotesOf(e)
  BY <1>1 DEF AppliedFrom, NotesOf
<1>. QED
  BY <1>1, <1>3, <1>4, <1>5, <1>6 DEF Frame

\* A transaction commits.
LEMMA CommitKeeps ==
  ASSUME IInv, NEW t \in Txns, CommitIssue(t) \/ CommitCredit(t) \/ CommitReconcile(t)
  PROVE  /\ TablesInv' /\ LocksApart' /\ TxInvOf(t)'
         /\ \A u \in Txns \ {t} : Frame(u)
<1>0. TypeOK /\ LocksApart
  BY DEF IInv
<1>1. Moved(t, Idle)
  BY DEF CommitIssue, CommitCredit, CommitReconcile
<1>2. LocksApart'
  BY <1>0, <1>1, LocksMoved, IdleType, IdleFields
<1>3. TxInvOf(t)'
  <2>1. tx'[t] = Idle
    BY <1>0, <1>1 DEF TypeOK, Moved
  <2>. QED
    BY <2>1, IdleKeeps
<1>4. CASE CommitIssue(t)
  BY <1>2, <1>3, <1>4, IssueKeeps, IssueFrame
<1>5. CASE CommitCredit(t)
  <2>1. PICK o, c, amount, whole : CreditWrites(t, o, c, amount, whole)
    BY <1>5, CreditFacts
  <2>. QED
    BY <1>2, <1>3, <2>1, CreditTables, CreditFrame
<1>6. CASE CommitReconcile(t)
  <2>1. PICK b, x : ReconcileWrites(t, b, x)
    BY <1>6, ReconcileFacts
  <2>. QED
    BY <1>2, <1>3, <2>1, ReconcileTables, ReconcileFrame
<1>. QED
  BY <1>4, <1>5, <1>6

\* The empty tables satisfy the invariant.
LEMMA InitInv == Init => IInv
<1>. SUFFICES ASSUME Init PROVE IInv
  OBVIOUS
<1>0. TypeOK
  BY InitType
<1>1. /\ \A d \in Docs : doc[d] = AbsentDoc /\ posting[d] = NotPosted /\ manual[d] = 0
      /\ \A p \in Docs \X Docs : applied[p] = 0
      /\ credits = {} /\ series = 1
      /\ \A b \in Banks : bank[b].status = "UNMATCHED" /\ bank[b].allocations = <<>>
      /\ \A t \in Txns : tx[t] = Idle
  BY DEF Init
<1>2. /\ AbsentDoc.status = "ABSENT" /\ AbsentDoc.kind = "SALES_INVOICE"
      /\ AbsentDoc.advance = 0 /\ AbsentDoc.credited = 0 /\ AbsentDoc.paid = 0
      /\ AbsentDoc.number = 0
  BY DEF AbsentDoc, DraftDoc
<1>3. \A d \in Docs : ~Issued(d)
  BY <1>1, <1>2 DEF Issued
<1>4. \A a, f \in Docs : applied[<<a, f>>] = 0
  BY <1>1
<1>5. LocksApart /\ TxInv
  BY <1>1, IdleFields DEF LocksApart, TxInv, IdleInv, IssueInv, CreditInv, ReconcileInv
<1>6. UnissuedInv
  <2>1. ASSUME NEW d \in Docs, NEW b \in Banks, NEW k \in DOMAIN bank[b].allocations
        PROVE  FALSE
    BY <1>1, <2>1
  <2>. QED
    BY <1>1, <1>2, <1>4, <2>1 DEF UnissuedInv, Traceless
<1>7. PostingInv /\ CreditsInv /\ AdvancesNotOverdrawn /\ CreditsAddUp
  BY <1>1, <1>3 DEF PostingInv, CreditsInv, AdvancesNotOverdrawn, CreditsAddUp
<1>8. InvoiceNumbersGapless
  <2>1. {x \in Docs : Issued(x)} = {} /\ 1 .. series - 1 = {}
    BY <1>1, <1>3
  <2>2. \A d \in Docs : ~Issued(d)
    BY <1>3
  <2>. QED
    BY <2>1, <2>2 DEF InvoiceNumbersGapless
<1>9. AppliedInv
  <2>1. ASSUME NEW f \in Docs
        PROVE  doc[f].advance = SumFunction([a \in Docs |-> applied[<<a, f>>]])
    <3> DEFINE g == [a \in Docs |-> applied[<<a, f>>]]
    <3>1. DOMAIN g = Docs /\ \A a \in Docs : g[a] = 0
      BY <1>4
    <3>2. SumFunctionOnSet(g, DOMAIN g) = 0
      <4>. HIDE DEF g
      <4>. QED  BY <3>1, SumZero, SettlementAssumption
    <3>. QED
      BY <1>1, <1>2, <3>2 DEF SumFunction
  <2>. QED
    BY <1>4, <2>1 DEF AppliedInv
<1>10. PaidOnce
  <2>1. ASSUME NEW d \in Docs PROVE PaidByBank(d) = 0
    <3> DEFINE S == {b \in Banks : bank[b].status = "POSTED"}
               f == [b \in Banks |-> Settles(b, d)]
    <3>1. S = {}
      BY <1>1
    <3>2. SumFunctionOnSet(f, S) = 0
      <4>. HIDE DEF f, S
      <4>. QED  BY <3>1, SumEmpty
    <3>. QED
      BY <3>2 DEF PaidByBank
  <2>. QED
    BY <1>1, <1>2, <2>1 DEF PaidOnce
<1>. QED
  BY <1>0, <1>1, <1>5, <1>6, <1>7, <1>8, <1>9, <1>10 DEF IInv

\* The invariant is inductive: one case per kind of step.
LEMMA NextInv == IInv /\ [Next]_vars => IInv'
<1>. SUFFICES ASSUME IInv, [Next]_vars PROVE IInv'
  OBVIOUS
<1>0. TypeOK /\ LocksApart /\ TxInv /\ TablesInv
  BY DEF IInv, TablesInv
\* A transaction moves: it keeps its own invariant, the others rely on their frame.
<1>1. ASSUME NEW t \in Txns, TypeOK', TablesInv', LocksApart', TxInvOf(t)',
             \A u \in Txns \ {t} : Frame(u)
      PROVE  IInv'
  <2>1. \A u \in Txns \ {t} : TxInvOf(u)'
    BY <1>0, <1>1, FrameKeeps DEF TxInv, TxInvOf
  <2>2. TxInv'
    BY <1>1, <2>1 DEF TxInv, TxInvOf
  <2>. QED
    BY <1>1, <2>2 DEF IInv, TablesInv
<1>2. ASSUME NEW t \in Txns, Begin(t) \/ Lock(t) \/ Refuse(t) \/ Abort(t)
      PROVE  IInv'
  <2>1. UNCHANGED <<doc, applied, credits, posting, series, manual, bank>>
    BY <1>2 DEF Begin, BeginIssue, BeginCredit, BeginReconcile, Lock, Refuse, Abort
  <2>2. TablesInv'
    BY <2>1, TablesKept DEF TablesInv
  <2>3. TypeOK'
    BY <1>0, <1>2, BeginType, StepType
  <2>4. LocksApart' /\ TxInvOf(t)' /\ \A u \in Txns \ {t} : Frame(u)
    BY <1>2, BeginKeeps, LockKeeps, EndKeeps
  <2>. QED
    BY <1>1, <2>2, <2>3, <2>4
<1>3. ASSUME NEW t \in Txns, CommitIssue(t) \/ CommitCredit(t) \/ CommitReconcile(t)
      PROVE  IInv'
  BY <1>1, <1>3, CommitType, CommitKeeps
<1>4. CASE Edit
  BY <1>0, <1>4, EditType, EditKeeps DEF IInv, TablesInv
<1>5. CASE Match
  BY <1>0, <1>5, MatchType, MatchKeeps DEF IInv, TablesInv
<1>6. CASE UNCHANGED vars
  <2>1. UNCHANGED <<doc, applied, credits, posting, series, manual, bank>> /\ tx' = tx
    BY <1>6 DEF vars
  <2>2. TablesInv'
    BY <2>1, TablesKept DEF TablesInv
  <2>3. TypeOK' /\ LocksApart'
    BY <1>0, <2>1 DEF TypeOK, LocksApart
  <2>4. \A u \in Txns : Frame(u)
    BY <2>1 DEF Frame, AppliedFrom, NotesOf
  <2>5. TxInv'
    BY <1>0, <2>4, FrameKeeps DEF TxInv, TxInvOf
  <2>. QED
    BY <2>2, <2>3, <2>5 DEF IInv, TablesInv
<1>. QED
  BY <1>2, <1>3, <1>4, <1>5, <1>6 DEF Next, Step, BreakDeadlock

\* The invariant holds whatever transactions interleave, wait, are refused or lost.
THEOREM SettlementInvariant == Spec => []IInv
BY InitInv, NextInv, PTL DEF Spec

(***************************************************************************)
(* The sales ledger and the books.                                         *)
(***************************************************************************)

\* The accounts of a document that is issued, field by field.
LEMMA PostingFields ==
  ASSUME IInv, NEW d \in Docs, Issued(d)
  PROVE  /\ doc[d].kind = "SALES_CREDIT_NOTE" =>
              /\ posting[d].receivable = -doc[d].total
              /\ posting[d].advances = 0 /\ doc[d].advance = 0
         /\ doc[d].kind = "ADVANCE_INVOICE" =>
              /\ posting[d].receivable = doc[d].total
              /\ posting[d].advances = -doc[d].total /\ doc[d].advance = 0
         /\ doc[d].kind = "SALES_INVOICE" =>
              /\ posting[d].receivable = doc[d].total - doc[d].advance
              /\ posting[d].advances = doc[d].advance
<1>1. PostingInv
  BY DEF IInv
<1>2. doc[d].kind # "SALES_INVOICE" => doc[d].advance = 0
  BY <1>1 DEF PostingInv
<1>3. CASE doc[d].kind = "SALES_CREDIT_NOTE"
  <2>1. posting[d] = [receivable |-> -doc[d].total, advances |-> 0,
                      revenue |-> doc[d].total]
    BY <1>1, <1>3 DEF PostingInv
  <2>. QED
    BY <1>2, <1>3, <2>1
<1>4. CASE doc[d].kind = "ADVANCE_INVOICE"
  <2>1. posting[d] = IssuePosting(d, doc[d].advance)
    BY <1>1, <1>4 DEF PostingInv
  <2>2. posting[d] = [receivable |-> doc[d].total, advances |-> -doc[d].total, revenue |-> 0]
    BY <1>4, <2>1 DEF IssuePosting
  <2>. QED
    BY <1>2, <1>4, <2>2
<1>5. CASE doc[d].kind = "SALES_INVOICE"
  <2>1. posting[d] = IssuePosting(d, doc[d].advance)
    BY <1>1, <1>5 DEF PostingInv
  <2>2. posting[d] = [receivable |-> doc[d].total - doc[d].advance,
                      advances |-> doc[d].advance, revenue |-> -doc[d].total]
    BY <1>5, <2>1 DEF IssuePosting
  <2>. QED
    BY <1>5, <2>2
<1>. QED
  BY <1>3, <1>4, <1>5

\* The credit notes of a document take back from accounts receivable what they say.
LEMMA NotesReceivable ==
  ASSUME IInv, NEW d \in Docs
  PROVE  ReceivableOfNotes(d) = -NotesTotal(d) /\ NotesTotal(d) \in Int
<1> DEFINE S == NotesOf(d)
           f == [c \in Docs |-> posting[c].receivable]
           g == [c \in Docs |-> doc[c].total]
           z == [c \in Docs |-> 0]
<1>0. TypeOK /\ UnissuedInv /\ PostingInv /\ CreditsInv
  BY DEF IInv
<1>1. S \subseteq Docs /\ IsFiniteSet(S)
  BY SettlementAssumption, FS_Subset DEF NotesOf
<1>2. \A c \in S : Issued(c) /\ doc[c].kind = "SALES_CREDIT_NOTE"
  <2>. SUFFICES ASSUME NEW c \in S PROVE Issued(c) /\ doc[c].kind = "SALES_CREDIT_NOTE"
    OBVIOUS
  <2>1. c \in Docs /\ <<d, c>> \in credits
    BY DEF NotesOf
  <2>2. doc[c].kind = "SALES_CREDIT_NOTE"
    BY <1>0, <2>1 DEF CreditsInv
  <2>. QED
    BY <1>0, <2>1, <2>2 DEF UnissuedInv, Traceless
<1>3. \A c \in S : f[c] \in Int /\ g[c] \in Int /\ z[c] = f[c] + g[c]
  <2>. SUFFICES ASSUME NEW c \in S
                PROVE  f[c] \in Int /\ g[c] \in Int /\ z[c] = f[c] + g[c]
    OBVIOUS
  <2>1. c \in Docs /\ doc[c].total \in Nat
    BY <1>0, <1>1 DEF TypeOK, Doc
  <2>2. posting[c].receivable = -doc[c].total
    BY <1>2, <2>1, PostingFields
  <2>. QED
    BY <2>1, <2>2
<1>4. \A c \in S : z[c] = 0
  BY <1>1
<1>5. \A c \in S : f[c] \in Int
  BY <1>3
<1>6. \A c \in S : g[c] \in Int
  BY <1>3
<1>7. ReceivableOfNotes(d) = SumFunctionOnSet(f, S) /\ NotesTotal(d) = SumFunctionOnSet(g, S)
  BY DEF ReceivableOfNotes, NotesTotal
<1>. HIDE DEF S, f, g, z
<1>8. SumFunctionOnSet(z, S) = SumFunctionOnSet(f, S) + SumFunctionOnSet(g, S)
  BY <1>1, <1>3, SumPlus
<1>9. SumFunctionOnSet(z, S) = 0
  BY <1>1, <1>4, SumZero
<1>10. SumFunctionOnSet(f, S) \in Int /\ SumFunctionOnSet(g, S) \in Int
  BY <1>1, <1>5, <1>6, SumInt
<1>. QED
  BY <1>7, <1>8, <1>9, <1>10

\* What an invoice and its credit notes left on accounts receivable.
LEMMA ReceivableMeets ==
  ASSUME IInv, NEW d \in Docs, Issued(d), doc[d].kind # "SALES_CREDIT_NOTE"
  PROVE  LET books == posting[d].receivable + ReceivableOfNotes(d)
         IN  books >= 0 /\ (books = Creditable(d) \/ WrittenOff(d))
<1>0. TypeOK /\ PostingInv /\ CreditsAddUp
  BY DEF IInv
<1>1. doc[d].total \in Nat /\ doc[d].advance \in Nat /\ doc[d].credited \in Nat
  BY <1>0 DEF TypeOK, Doc
<1>2. ReceivableOfNotes(d) = -NotesTotal(d) /\ NotesTotal(d) \in Int
  BY <1>0, NotesReceivable
<1>3. /\ posting[d] = IssuePosting(d, doc[d].advance)
      /\ doc[d].kind # "SALES_INVOICE" => doc[d].advance = 0
  BY <1>0 DEF PostingInv
<1>4. posting[d].receivable = doc[d].total - doc[d].advance
  BY <1>1, <1>3 DEF IssuePosting
<1>5. /\ NotesTotal(d) <= doc[d].total - doc[d].advance
      /\ doc[d].credited = NotesTotal(d) \/ WrittenOff(d)
  BY <1>0 DEF CreditsAddUp
<1>6. CASE doc[d].credited = NotesTotal(d)
  BY <1>1, <1>2, <1>4, <1>5, <1>6 DEF Creditable
<1>7. CASE WrittenOff(d)
  BY <1>1, <1>2, <1>4, <1>5, <1>7
<1>. QED
  BY <1>5, <1>6, <1>7

Advances == {a \in Docs : Issued(a) /\ doc[a].kind = "ADVANCE_INVOICE"}

\* What was taken from a document that is not an issued advance is nothing.
LEMMA OnlyAdvancesUsed ==
  ASSUME IInv, NEW a \in Docs \ Advances
  PROVE  AppliedFrom(a) = 0
<1>0. TypeOK /\ UnissuedInv /\ AppliedInv
  BY DEF IInv
<1>1. \A f \in Docs : applied[<<a, f>>] = 0
  BY <1>0 DEF Advances, UnissuedInv, Traceless, AppliedInv
<1>. QED
  BY <1>1, AppliedFromZero

\* The account of advances received is what is left of the advances.
LEMMA AdvancesMeet ==
  ASSUME IInv
  PROVE  AdvancesAccount = AdvancesLeft
<1> DEFINE p == [d \in Docs |-> -posting[d].advances]
           v == [d \in Docs |-> doc[d].advance]
           A == [d \in Docs |-> IF d \in Advances THEN doc[d].total ELSE 0]
           F == [a \in Docs |-> AppliedFrom(a)]
           L == [a \in Docs |-> doc[a].total - AppliedFrom(a)]
           m == [d \in Docs |-> [a \in Docs |-> applied[<<a, d>>]]]
           S == Advances
<1>0. TypeOK /\ UnissuedInv /\ PostingInv /\ AppliedInv
  BY DEF IInv
<1>1. IsFiniteSet(Docs) /\ S \subseteq Docs /\ IsFiniteSet(S)
  BY SettlementAssumption, FS_Subset DEF Advances
<1>2. \A d \in Docs : doc[d].total \in Nat /\ doc[d].advance \in Nat /\ AppliedFrom(d) \in Nat
  BY <1>0, AppliedFromNat DEF TypeOK, Doc
<1>3. \A d \in Docs : A[d] \in Int /\ v[d] \in Int /\ p[d] = A[d] - v[d]
  <2>. SUFFICES ASSUME NEW d \in Docs PROVE A[d] \in Int /\ v[d] \in Int /\ p[d] = A[d] - v[d]
    OBVIOUS
  <2>1. CASE ~Issued(d)
    <3>1. posting[d].advances = 0 /\ doc[d].advance = 0
      BY <1>0, <2>1 DEF UnissuedInv, Traceless, NotPosted
    <3>. QED
      BY <1>2, <2>1, <3>1 DEF Advances
  <2>2. CASE Issued(d) /\ doc[d].kind = "SALES_CREDIT_NOTE"
    <3>1. posting[d].advances = 0 /\ doc[d].advance = 0
      BY <2>2, PostingFields
    <3>. QED
      BY <1>2, <2>2, <3>1 DEF Advances
  <2>3. CASE Issued(d) /\ doc[d].kind = "ADVANCE_INVOICE"
    <3>1. posting[d].advances = -doc[d].total /\ doc[d].advance = 0
      BY <2>3, PostingFields
    <3>. QED
      BY <1>2, <2>3, <3>1 DEF Advances
  <2>4. CASE Issued(d) /\ doc[d].kind = "SALES_INVOICE"
    <3>1. posting[d].advances = doc[d].advance
      BY <2>4, PostingFields
    <3>. QED
      BY <1>2, <2>4, <3>1 DEF Advances
  <2>5. doc[d].kind \in Kind
    BY <1>0 DEF TypeOK, Doc
  <2>. QED
    BY <2>1, <2>2, <2>3, <2>4, <2>5 DEF Kind
\* The advances of the invoices are what was taken from the advance invoices.
<1>4. SumFunctionOnSet(v, Docs) = SumFunctionOnSet(F, Docs)
  <2>1. \A x \in Docs : \A y \in Docs : m[x][y] \in Int
    <3>. SUFFICES ASSUME NEW x \in Docs, NEW y \in Docs PROVE m[x][y] \in Int
      OBVIOUS
    <3>1. applied[<<y, x>>] \in Nat
      BY <1>0 DEF TypeOK
    <3>2. m[x][y] = applied[<<y, x>>]
      OBVIOUS
    <3>. QED
      BY <3>1, <3>2
  <2>2. \A x \in Docs : v[x] = SumFunctionOnSet(m[x], Docs)
    BY <1>0 DEF AppliedInv, SumFunction
  <2>3. \A y \in Docs : F[y] = SumFunctionOnSet(Column(m, Docs, y), Docs)
    <3>. SUFFICES ASSUME NEW y \in Docs
                  PROVE  F[y] = SumFunctionOnSet(Column(m, Docs, y), Docs)
      OBVIOUS
    <3>1. Column(m, Docs, y) = [x \in Docs |-> applied[<<y, x>>]]
      BY DEF Column
    <3>. QED
      BY <3>1 DEF AppliedFrom, SumFunction
  <2>. HIDE DEF v, F, m
  <2>. QED
    BY <1>1, <2>1, <2>2, <2>3, SumSwap
<1>5. SumFunctionOnSet(F, Docs) = SumFunctionOnSet(F, S)
  <2>1. \A x \in Docs : F[x] \in Int
    BY <1>2
  <2>2. \A x \in Docs \ S : F[x] = 0
    BY OnlyAdvancesUsed
  <2>. HIDE DEF F, S
  <2>. QED
    BY <1>1, <2>1, <2>2, SumSupport
<1>6. SumFunctionOnSet(A, Docs) = SumFunctionOnSet(A, S)
  <2>1. \A x \in Docs : A[x] \in Int
    BY <1>3
  <2>2. \A x \in Docs \ S : A[x] = 0
    OBVIOUS
  <2>. HIDE DEF A, S
  <2>. QED
    BY <1>1, <2>1, <2>2, SumSupport
<1>7. \A x \in S : A[x] \in Int /\ F[x] \in Int /\ L[x] = A[x] - F[x]
  BY <1>1, <1>2
<1>8. AdvancesAccount = SumFunctionOnSet(p, Docs) /\ AdvancesLeft = SumFunctionOnSet(L, S)
  BY DEF AdvancesAccount, AdvancesLeft, SumFunction, Advances
<1>. HIDE DEF p, v, A, F, L, S
<1>9. SumFunctionOnSet(p, Docs) = SumFunctionOnSet(A, Docs) - SumFunctionOnSet(v, Docs)
  BY <1>1, <1>3, SumMinus
<1>10. SumFunctionOnSet(L, S) = SumFunctionOnSet(A, S) - SumFunctionOnSet(F, S)
  BY <1>1, <1>7, SumMinus
<1>. QED
  BY <1>4, <1>5, <1>6, <1>8, <1>9, <1>10

\* The invariant makes the sales ledger and the books agree.
LEMMA SubledgerFromInv == IInv => SubledgerMeetsBooks
BY ReceivableMeets, AdvancesMeet DEF SubledgerMeetsBooks

\* Every table keeps its shape, and every open transaction its own.
THEOREM TablesTyped == Spec => []TypeOK
<1>1. IInv => TypeOK
  BY DEF IInv
<1>. QED
  BY <1>1, SettlementInvariant, PTL

\* Parallel issues never use more of an advance than it has (issueInvoice locks
\* the advances and reads what was used of them under the lock).
THEOREM AdvancesBounded == Spec => []AdvancesNotOverdrawn
<1>1. IInv => AdvancesNotOverdrawn
  BY DEF IInv
<1>. QED
  BY <1>1, SettlementInvariant, PTL

\* The documents issued hold the numbers 1, 2, ... without a gap or a duplicate
\* (allocateInvoiceNumber, whose draw is undone with the transaction).
THEOREM NumbersGapless == Spec => []InvoiceNumbersGapless
<1>1. IInv => InvoiceNumbersGapless
  BY DEF IInv
<1>. QED
  BY <1>1, SettlementInvariant, PTL

\* Credit notes never exceed the invoice, credited_amount is their sum unless the
\* invoice was written off as a whole, and the status follows it (createCreditNote,
\* creditInvoice, the credit link trigger).
THEOREM CreditNotesAddUp == Spec => []CreditsAddUp
<1>1. IInv => CreditsAddUp
  BY DEF IInv
<1>. QED
  BY <1>1, SettlementInvariant, PTL

\* paid_amount is what was entered by hand and what the bank transactions posted
\* have paid (recordSalesPayment, reconcileBankTransaction).
THEOREM PaymentsCounted == Spec => []PaidOnce
<1>1. IInv => PaidOnce
  BY DEF IInv
<1>. QED
  BY <1>1, SettlementInvariant, PTL

\* The invoices and the accounts of receivables and advances agree after every
\* step, and differ only for what was written off as a whole (issueInvoice,
\* createCreditNote, creditInvoice and their journal entries).
THEOREM SubledgerAgrees == Spec => []SubledgerMeetsBooks
BY SubledgerFromInv, SettlementInvariant, PTL

(***************************************************************************)
(* What a step may never do.                                               *)
(***************************************************************************)

\* What a step leaves of a document that is issued.
Stays(x, y) ==
  /\ y.status \in {x.status, "CREDITED"}
  /\ [x EXCEPT !.status = y.status, !.payment = y.payment,
               !.paid = y.paid, !.credited = y.credited] = y
  /\ y.paid >= x.paid /\ y.credited >= x.credited

Kept(d) == Stays(doc[d], doc'[d])

PostedBanksKept == \A b \in Banks : bank[b].status = "POSTED" => bank'[b] = bank[b]

\* A document nobody writes is kept.
LEMMA SameKept ==
  ASSUME TypeOK, NEW d \in Docs, doc'[d] = doc[d]
  PROVE  Kept(d)
<1>1. doc[d] \in Doc
  BY DEF TypeOK
<1>2. ASSUME NEW x \in Doc PROVE Stays(x, x)
  <2>1. x.paid \in Nat /\ x.credited \in Nat
    BY DEF Doc
  <2>2. [x EXCEPT !.status = x.status, !.payment = x.payment,
                  !.paid = x.paid, !.credited = x.credited] = x
    BY DEF Doc
  <2>. QED
    BY <2>1, <2>2 DEF Stays
<1>. QED
  BY <1>1, <1>2 DEF Kept

\* A payment keeps what was issued.
LEMMA PaidKept ==
  ASSUME TypeOK, NEW d \in Docs, NEW amount \in Nat, doc'[d] = Paid(d, amount)
  PROVE  Kept(d)
<1> DEFINE x == Paid(d, amount)
<1>1. doc[d] \in Doc /\ doc[d].paid \in Nat /\ doc[d].credited \in Nat
  BY DEF TypeOK, Doc
<1>2. /\ x.paid = doc[d].paid + amount /\ x.status = doc[d].status
      /\ x.credited = doc[d].credited
      /\ x = [doc[d] EXCEPT !.payment = x.payment, !.paid = x.paid]
  BY PaidRecord
<1>3. doc'[d] = x
  OBVIOUS
<1>. HIDE DEF x
<1>4. [doc[d] EXCEPT !.status = x.status, !.payment = x.payment,
                     !.paid = x.paid, !.credited = x.credited] = x
  BY <1>1, <1>2 DEF Doc
<1>5. Stays(doc[d], x)
  BY <1>1, <1>2, <1>4 DEF Stays
<1>. QED
  BY <1>3, <1>5 DEF Kept

\* A credit note keeps what was issued, its original included.
LEMMA CreditKept ==
  ASSUME IInv, NEW t \in Txns, CommitCredit(t), NEW d \in Docs, Issued(d)
  PROVE  Kept(d)
<1> DEFINE o == tx[t].target
           c == tx[t].note
           amount == tx[t].amount
           whole == tx[t].whole
           x == Credited(o, amount, whole)
<1>0. TypeOK
  BY DEF IInv
<1>1. CreditWrites(t, o, c, amount, whole)
  BY CreditFacts
<1>2. /\ o \in Docs /\ c \in Docs /\ o # c /\ amount \in Nat /\ whole \in BOOLEAN
      /\ doc[o].status = "ISSUED" /\ doc[c].status = "ABSENT"
      /\ doc' = [doc EXCEPT ![c] = NoteDoc(amount, series), ![o] = x]
  BY <1>1 DEF CreditWrites
<1>3. /\ doc'[o] = x /\ \A e \in Docs \ {o, c} : doc'[e] = doc[e]
  BY <1>0, <1>2 DEF TypeOK
<1>4. d # c
  BY <1>2 DEF Issued
<1>5. CASE d # o
  BY <1>0, <1>3, <1>4, <1>5, SameKept
<1>6. CASE d = o
  <2>1. /\ x \in Doc
        /\ whole => x.credited = doc[o].total /\ x.status = "CREDITED"
        /\ ~whole => x.credited = doc[o].credited + amount
        /\ ~whole => x.status = IF FullyCredited(o, x.credited) THEN "CREDITED"
                               ELSE doc[o].status
        /\ x.paid = doc[o].paid
        /\ x = [doc[o] EXCEPT !.status = x.status, !.payment = x.payment,
                              !.paid = x.paid, !.credited = x.credited]
    <3>1. x = Credited(o, amount, whole)
      OBVIOUS
    <3>2. amount \in Nat /\ whole \in BOOLEAN /\ o \in Docs
      BY <1>2
    <3>. HIDE DEF x, amount, whole, o
    <3>3. CreditedFields(o, amount, whole, Credited(o, amount, whole))
      BY <1>0, <3>2, CreditedType, Zenon
    <3>. QED  BY <3>1, <3>3 DEF CreditedFields
  <2>2. doc[o].credited \in Nat /\ doc[o].paid \in Nat
    BY <1>0, <1>2 DEF TypeOK, Doc
  <2>3. doc[o].credited <= doc[o].total /\ doc[o].total \in Nat
    <3>1. /\ NotesTotal(o) <= doc[o].total - doc[o].advance
          /\ doc[o].credited = NotesTotal(o)
      BY <1>2, <1>6 DEF IInv, CreditsAddUp, WrittenOff
    <3>2. doc[o].total \in Nat /\ doc[o].advance \in Nat
      BY <1>0, <1>2 DEF TypeOK, Doc
    <3>. QED
      BY <2>2, <3>1, <3>2
  <2>4. x.status \in {doc[o].status, "CREDITED"}
    BY <2>1
  <2>. HIDE DEF x
  <2>5. Stays(doc[o], x)
    BY <1>2, <2>1, <2>2, <2>3, <2>4 DEF Stays
  <2>. QED
    BY <1>3, <1>6, <2>5 DEF Kept
<1>. QED
  BY <1>5, <1>6

\* The steps that write to documents or bank transactions, one by one.
LEMMA StepKeepsIssued ==
  ASSUME IInv, [Next]_vars
  PROVE  (\A d \in Docs : Issued(d) => Kept(d)) /\ PostedBanksKept
<1>0. TypeOK
  BY DEF IInv
<1>1. ASSUME UNCHANGED doc
      PROVE  \A d \in Docs : Issued(d) => Kept(d)
  BY <1>0, <1>1, SameKept
<1>2. ASSUME UNCHANGED bank
      PROVE  PostedBanksKept
  BY <1>2 DEF PostedBanksKept
<1>3. ASSUME NEW d \in Docs, ~Issued(d), \A e \in Docs \ {d} : doc'[e] = doc[e]
      PROVE  \A e \in Docs : Issued(e) => Kept(e)
  BY <1>0, <1>3, SameKept
<1>4. ASSUME NEW d \in Docs, NEW amount \in Nat, doc' = [doc EXCEPT ![d] = Paid(d, amount)]
      PROVE  \A e \in Docs : Issued(e) => Kept(e)
  <2>1. doc'[d] = Paid(d, amount) /\ \A e \in Docs \ {d} : doc'[e] = doc[e]
    BY <1>0, <1>4 DEF TypeOK
  <2>. QED
    BY <1>0, <2>1, SameKept, PaidKept
<1>5. ASSUME NEW b \in Banks, bank[b].status # "POSTED", \A c \in Banks \ {b} : bank'[c] = bank[c]
      PROVE  PostedBanksKept
  BY <1>5 DEF PostedBanksKept
<1>6. ASSUME NEW t \in Txns, Begin(t) \/ Lock(t) \/ Refuse(t) \/ Abort(t)
      PROVE  UNCHANGED <<doc, bank>>
  BY <1>6 DEF Begin, BeginIssue, BeginCredit, BeginReconcile, Lock, Refuse, Abort
<1>7. ASSUME NEW t \in Txns, CommitIssue(t)
      PROVE  (\A d \in Docs : Issued(d) => Kept(d)) /\ PostedBanksKept
  <2> DEFINE d == tx[t].target
  <2>1. /\ d \in Docs /\ doc[d].status = "DRAFT" /\ doc' = [doc EXCEPT ![d] = doc'[d]]
        /\ UNCHANGED bank
    BY <1>7, IssueFacts DEF IssueWrites
  <2>2. ~Issued(d) /\ \A e \in Docs \ {d} : doc'[e] = doc[e]
    BY <1>0, <2>1 DEF TypeOK, Issued
  <2>. QED
    BY <1>2, <1>3, <2>1, <2>2
<1>8. ASSUME NEW t \in Txns, CommitCredit(t)
      PROVE  (\A d \in Docs : Issued(d) => Kept(d)) /\ PostedBanksKept
  <2>1. UNCHANGED bank
    BY <1>8 DEF CommitCredit
  <2>. QED
    BY <1>2, <1>8, <2>1, CreditKept
<1>9. ASSUME NEW t \in Txns, CommitReconcile(t)
      PROVE  (\A d \in Docs : Issued(d) => Kept(d)) /\ PostedBanksKept
  <2> DEFINE b == tx[t].target
             x == bank[b].allocations[1]
  <2>1. ReconcileWrites(t, b, x)
    BY <1>9, ReconcileFacts
  <2>2. /\ b \in Banks /\ bank[b].status # "POSTED" /\ x.amount \in Nat
        /\ x.target # NoDoc => x.target \in Docs
        /\ doc' = IF x.target = NoDoc THEN doc
                  ELSE [doc EXCEPT ![x.target] = Paid(x.target, x.amount)]
        /\ bank' = [bank EXCEPT ![b].status = "POSTED"]
    BY <2>1 DEF ReconcileWrites
  <2>3. \A c \in Banks \ {b} : bank'[c] = bank[c]
    BY <1>0, <2>2 DEF TypeOK
  <2>4. \A d \in Docs : Issued(d) => Kept(d)
    <3>1. CASE x.target = NoDoc
      BY <1>1, <2>2, <3>1
    <3>2. CASE x.target # NoDoc
      BY <1>4, <2>2, <3>2
    <3>. QED
      BY <3>1, <3>2
  <2>. QED
    BY <1>5, <2>2, <2>3, <2>4
<1>10. ASSUME Edit
       PROVE  (\A d \in Docs : Issued(d) => Kept(d)) /\ PostedBanksKept
  <2>1. UNCHANGED bank
    BY <1>10 DEF Edit, CreateInvoiceDraft, UpdateDraft, CancelDraft, Pay
  <2>2. ASSUME NEW d \in Docs, NEW draft \in Drafts,
               CreateInvoiceDraft(d, draft) \/ UpdateDraft(d, draft) \/ CancelDraft(d)
        PROVE  \A e \in Docs : Issued(e) => Kept(e)
    <3>1. ~Issued(d) /\ \A e \in Docs \ {d} : doc'[e] = doc[e]
      BY <1>0, <2>2 DEF CreateInvoiceDraft, UpdateDraft, CancelDraft, Issued, TypeOK
    <3>. QED
      BY <1>3, <3>1
  <2>3. ASSUME NEW d \in Docs, CancelDraft(d)
        PROVE  \A e \in Docs : Issued(e) => Kept(e)
    <3>1. ~Issued(d) /\ \A e \in Docs \ {d} : doc'[e] = doc[e]
      BY <1>0, <2>3 DEF CancelDraft, Issued, TypeOK
    <3>. QED
      BY <1>3, <3>1
  <2>4. ASSUME NEW d \in Docs, NEW amount \in Amounts, Pay(d, amount)
        PROVE  \A e \in Docs : Issued(e) => Kept(e)
    <3>1. amount \in Nat /\ doc' = [doc EXCEPT ![d] = Paid(d, amount)]
      BY <2>4, SettlementAssumption DEF Pay
    <3>. QED
      BY <1>4, <3>1
  <2>. QED
    BY <1>2, <1>10, <2>1, <2>2, <2>3, <2>4 DEF Edit
<1>11. ASSUME Match
       PROVE  (\A d \in Docs : Issued(d) => Kept(d)) /\ PostedBanksKept
  <2>1. UNCHANGED doc
    BY <1>11 DEF Match, CreateAllocation, DeleteAllocation, ReviewNoPost
  <2>2. PICK b \in Banks : bank[b].status # "POSTED" /\ \A c \in Banks \ {b} : bank'[c] = bank[c]
    BY <1>0, <1>11 DEF Match, CreateAllocation, DeleteAllocation, ReviewNoPost, TypeOK
  <2>. QED
    BY <1>1, <1>5, <2>1, <2>2
<1>12. CASE UNCHANGED vars
  BY <1>1, <1>2, <1>12 DEF vars
<1>. QED
  BY <1>1, <1>2, <1>6, <1>7, <1>8, <1>9, <1>10, <1>11, <1>12 DEF Next, Step, BreakDeadlock

\* Only a payment by hand adds to what was paid by hand, and never more than is open.
LEMMA StepWithinOpen ==
  ASSUME IInv, [Next]_vars, NEW d \in Docs, manual'[d] > manual[d]
  PROVE  doc'[d].paid <= doc[d].total - doc[d].advance - doc[d].credited
<1>0. TypeOK
  BY DEF IInv
<1>1. manual[d] \in Nat
  BY <1>0 DEF TypeOK
<1>2. manual' # manual
  BY <1>1
<1>3. PICK e \in Docs, amount \in Amounts : Pay(e, amount)
  <2>1. ASSUME NEW t \in Txns, Begin(t) \/ Step(t) \/ Abort(t) \/ BreakDeadlock(t)
        PROVE  manual' = manual
    <3>1. Begin(t) => manual' = manual
      BY DEF Begin, BeginIssue, BeginCredit, BeginReconcile
    <3>2. Lock(t) \/ Refuse(t) \/ Abort(t) \/ BreakDeadlock(t) => manual' = manual
      BY DEF Lock, Refuse, Abort, BreakDeadlock
    <3>3. CommitIssue(t) \/ CommitCredit(t) \/ CommitReconcile(t) => manual' = manual
      BY DEF CommitIssue, CommitCredit, CommitReconcile
    <3>. QED
      BY <2>1, <3>1, <3>2, <3>3 DEF Step
  <2>2. Match => manual' = manual
    BY DEF Match, CreateAllocation, DeleteAllocation, ReviewNoPost
  <2>3. Edit => \/ manual' = manual
                \/ \E e \in Docs, amount \in Amounts : Pay(e, amount)
    BY DEF Edit, CreateInvoiceDraft, UpdateDraft, CancelDraft
  <2>4. ~UNCHANGED vars
    BY <1>2 DEF vars
  <2>. QED
    BY <1>2, <2>1, <2>2, <2>3, <2>4 DEF Next
<1>4. /\ doc' = [doc EXCEPT ![e] = Paid(e, amount)] /\ amount <= Open(e)
      /\ manual' = [manual EXCEPT ![e] = @ + amount] /\ amount \in Nat
  BY <1>3, SettlementAssumption DEF Pay
<1>5. d = e
  BY <1>0, <1>1, <1>4 DEF TypeOK
<1>6. doc'[d].paid = doc[d].paid + amount
  BY <1>0, <1>4, <1>5, PaidFields
<1>7. /\ doc[d].paid \in Nat /\ doc[d].total \in Nat /\ doc[d].advance \in Nat
      /\ doc[d].credited \in Nat
  BY <1>0 DEF TypeOK, Doc
<1>. QED
  BY <1>4, <1>5, <1>6, <1>7 DEF Open, Creditable

\* recordSalesPayment never takes more than is open.
THEOREM ManualPaymentsBounded == Spec => ManualWithinOpen
<1>1. IInv /\ [Next]_vars =>
        [\A d \in Docs : manual'[d] > manual[d] =>
           doc'[d].paid <= doc[d].total - doc[d].advance - doc[d].credited]_vars
  BY StepWithinOpen
<1>. QED
  BY <1>1, SettlementInvariant, PTL DEF Spec, ManualWithinOpen

\* No step changes what an issued document says, and what a posted bank
\* transaction says (the immutability triggers).
THEOREM IssuedStays == Spec => IssuedIsImmutable
<1>1. IInv /\ [Next]_vars =>
        [/\ \A d \in Docs : Issued(d) =>
              /\ doc'[d].status \in {doc[d].status, "CREDITED"}
              /\ [doc[d] EXCEPT !.status = doc'[d].status, !.payment = doc'[d].payment,
                                !.paid = doc'[d].paid, !.credited = doc'[d].credited]
                   = doc'[d]
              /\ doc'[d].paid >= doc[d].paid /\ doc'[d].credited >= doc[d].credited
         /\ \A b \in Banks : bank[b].status = "POSTED" => bank'[b] = bank[b]]_vars
  BY StepKeepsIssued DEF Kept, Stays, PostedBanksKept
<1>. QED
  BY <1>1, SettlementInvariant, PTL DEF Spec, IssuedIsImmutable

(***************************************************************************)
(* The reports of one customer.                                            *)
(***************************************************************************)

\* The larger of zero and an amount.
LEMMA MaxZero ==
  ASSUME NEW n \in Int
  PROVE  Max({0, n}) = IF n >= 0 THEN n ELSE 0
<1> DEFINE m == IF n >= 0 THEN n ELSE 0
<1>1. m \in {0, n} /\ \A y \in {0, n} : m >= y
  OBVIOUS
<1>2. \A x \in {0, n} : (\A y \in {0, n} : x >= y) => x = m
  OBVIOUS
<1>. HIDE DEF m
<1>3. Max({0, n}) = m
  BY <1>1, <1>2 DEF Max
<1>. QED
  BY <1>3 DEF m

\* What is open of a document, and the two ways to count it.
LEMMA OpenFacts ==
  ASSUME TypeOK, NEW d \in Docs
  PROVE  /\ Open(d) \in Int /\ OpenBalance(d) \in Nat /\ Max({0, -Open(d)}) \in Nat
         /\ Open(d) = OpenBalance(d) - Max({0, -Open(d)})
         /\ OpenBalance(d) = 0 <=> Open(d) <= 0
<1>1. /\ doc[d].paid \in Nat /\ doc[d].total \in Nat /\ doc[d].advance \in Nat
      /\ doc[d].credited \in Nat
  BY DEF TypeOK, Doc
<1>2. Open(d) \in Int
  BY <1>1 DEF Open, Creditable
<1>3. /\ OpenBalance(d) = IF Open(d) >= 0 THEN Open(d) ELSE 0
      /\ Max({0, -Open(d)}) = IF -Open(d) >= 0 THEN -Open(d) ELSE 0
  BY <1>2, MaxZero DEF OpenBalance
<1>. QED
  BY <1>2, <1>3

\* The statement is the balance, less what was paid too much, and what credited
\* invoices leave behind.
LEMMA StatementMeetsBalance ==
  ASSUME IInv
  PROVE  StatementTotal =
           CustomerOpen
             + SumFunctionOnSet([d \in Docs |-> doc[d].total - doc[d].advance
                                                  - NotesTotal(d) - doc[d].paid],
                                Invoices \ Owing)
             - SumFunctionOnSet([d \in Docs |-> Max({0, -Open(d)})],
                                Owing \intersect Invoices)
<1> DEFINE S == Invoices
           T == Owing \intersect Invoices
           h == [d \in Docs |-> doc[d].total - doc[d].advance
                                  - NotesTotal(d) - PaymentsOf(d)]
           o == [d \in Docs |-> doc[d].total - doc[d].advance
                                  - NotesTotal(d) - doc[d].paid]
           b == [d \in Docs |-> OpenBalance(d)]
           m == [d \in Docs |-> Max({0, -Open(d)})]
<1>0. TypeOK /\ CreditsAddUp /\ PaidOnce
  BY DEF IInv
<1>1. /\ S \subseteq Docs /\ IsFiniteSet(S) /\ T \subseteq S /\ IsFiniteSet(T)
      /\ S \ T = Invoices \ Owing
  BY SettlementAssumption, FS_Subset DEF Invoices, Owing
<1>2. \A d \in S : h[d] = o[d]
  <2>. SUFFICES ASSUME NEW d \in S PROVE h[d] = o[d]
    OBVIOUS
  <2>1. d \in Docs /\ Issued(d)
    BY DEF Invoices
  <2>2. doc[d].paid = PaymentsOf(d)
    BY <1>0, <2>1 DEF PaidOnce, PaymentsOf
  <2>. QED
    BY <2>1, <2>2
<1>3. \A d \in S : o[d] \in Int
  <2>. SUFFICES ASSUME NEW d \in S PROVE o[d] \in Int
    OBVIOUS
  <2>1. doc[d].total \in Nat /\ doc[d].advance \in Nat /\ doc[d].paid \in Nat
    BY <1>0, <1>1 DEF TypeOK, Doc
  <2>2. NotesTotal(d) \in Int
    BY <1>1, NotesReceivable
  <2>. QED
    BY <1>1, <2>1, <2>2
<1>4. \A d \in T : b[d] \in Int /\ m[d] \in Int /\ o[d] = b[d] - m[d]
  <2>. SUFFICES ASSUME NEW d \in T PROVE b[d] \in Int /\ m[d] \in Int /\ o[d] = b[d] - m[d]
    OBVIOUS
  <2>1. d \in Docs
    BY <1>1
  <2>2. /\ OpenBalance(d) \in Nat /\ Max({0, -Open(d)}) \in Nat
        /\ Open(d) = OpenBalance(d) - Max({0, -Open(d)})
    BY <1>0, <2>1, OpenFacts
  <2>3. o[d] = Open(d)
    <3>1. Issued(d) /\ doc[d].status # "CREDITED"
      BY DEF Owing, Issued
    <3>2. doc[d].credited = NotesTotal(d)
      BY <1>0, <2>1, <3>1 DEF CreditsAddUp, WrittenOff
    <3>. QED
      BY <2>1, <3>2 DEF Open, Creditable
  <2>. QED
    BY <2>1, <2>2, <2>3
<1>5. StatementTotal = SumFunctionOnSet(h, S) /\ CustomerOpen = SumFunctionOnSet(b, T)
  BY DEF StatementTotal, CustomerOpen, OpenOver
<1>6. SUFFICES SumFunctionOnSet(h, S)
                 = SumFunctionOnSet(b, T) + SumFunctionOnSet(o, S \ T) - SumFunctionOnSet(m, T)
  BY <1>1, <1>5
<1>. HIDE DEF S, T, h, o, b, m
<1>7. SumFunctionOnSet(h, S) = SumFunctionOnSet(o, S)
  BY <1>1, <1>2, SumSame
<1>8. SumFunctionOnSet(o, S) = SumFunctionOnSet(o, T) + SumFunctionOnSet(o, S \ T)
  BY <1>1, <1>3, SumSplit
<1>9. SumFunctionOnSet(o, T) = SumFunctionOnSet(b, T) - SumFunctionOnSet(m, T)
  BY <1>1, <1>4, SumMinus
<1>10. /\ SumFunctionOnSet(b, T) \in Int /\ SumFunctionOnSet(m, T) \in Int
       /\ SumFunctionOnSet(o, S \ T) \in Int
  <2>1. IsFiniteSet(S \ T) /\ \A d \in S \ T : o[d] \in Int
    BY <1>1, <1>3, FS_Subset
  <2>2. (\A d \in T : b[d] \in Int) /\ (\A d \in T : m[d] \in Int)
    BY <1>4
  <2>. QED
    BY <1>1, <2>1, <2>2, SumInt
<1>. QED
  BY <1>7, <1>8, <1>9, <1>10

\* There are six buckets.
LEMMA BucketsFinite == IsFiniteSet(Buckets)
<1>1. IsFiniteSet({"NOT_DUE", "1_7", "8_30"}) /\ IsFiniteSet({"31_60", "61_90", "OVER_90"})
  <2>1. /\ IsFiniteSet({"NOT_DUE"}) /\ IsFiniteSet({"1_7"}) /\ IsFiniteSet({"8_30"})
        /\ IsFiniteSet({"31_60"}) /\ IsFiniteSet({"61_90"}) /\ IsFiniteSet({"OVER_90"})
    BY FS_Singleton
  <2>2. IsFiniteSet({"NOT_DUE"} \union {"1_7"}) /\ IsFiniteSet({"31_60"} \union {"61_90"})
    BY <2>1, FS_Union
  <2>3. /\ IsFiniteSet(({"NOT_DUE"} \union {"1_7"}) \union {"8_30"})
        /\ IsFiniteSet(({"31_60"} \union {"61_90"}) \union {"OVER_90"})
    BY <2>1, <2>2, FS_Union
  <2>4. /\ ({"NOT_DUE"} \union {"1_7"}) \union {"8_30"} = {"NOT_DUE", "1_7", "8_30"}
        /\ ({"31_60"} \union {"61_90"}) \union {"OVER_90"} = {"31_60", "61_90", "OVER_90"}
    OBVIOUS
  <2>. QED
    BY <2>3, <2>4
<1>2. Buckets = {"NOT_DUE", "1_7", "8_30"} \union {"31_60", "61_90", "OVER_90"}
  BY DEF Buckets
<1>. QED
  BY <1>1, <1>2, FS_Union

\* Every open cent is in one bucket.
LEMMA AgingAddsUp ==
  ASSUME IInv, NEW days \in Int
  PROVE  SumFunction([bucket \in Buckets |-> Aging(bucket, days)]) = Outstanding
<1> DEFINE b == [d \in Docs |-> OpenBalance(d)]
           key == [d \in Owing |-> Bucket(d, days)]
           g == [bucket \in Buckets |-> Aging(bucket, days)]
<1>0. TypeOK
  BY DEF IInv
<1>1. Owing \subseteq Docs /\ IsFiniteSet(Owing)
  BY SettlementAssumption, FS_Subset DEF Owing
<1>2. key \in [Owing -> Buckets]
  <2>1. \A d \in Owing : Bucket(d, days) \in Buckets
    BY DEF Bucket, Buckets
  <2>. QED
    BY <2>1
<1>3. \A d \in Owing : b[d] \in Int
  <2>. SUFFICES ASSUME NEW d \in Owing PROVE OpenBalance(d) \in Int
    BY <1>1
  <2>1. d \in Docs
    BY <1>1
  <2>2. OpenBalance(d) \in Nat
    BY <1>0, <2>1, OpenFacts
  <2>. QED
    BY <2>2
<1>4. \A k \in Buckets : g[k] = SumFunctionOnSet(b, Group(Owing, key, k))
  <2>. SUFFICES ASSUME NEW k \in Buckets
                PROVE  g[k] = SumFunctionOnSet(b, Group(Owing, key, k))
    OBVIOUS
  <2>1. Group(Owing, key, k) = {d \in Owing : Bucket(d, days) = k}
    BY DEF Group
  <2>. QED
    BY <2>1 DEF Aging, OpenOver
<1>5. /\ SumFunction(g) = SumFunctionOnSet(g, Buckets)
      /\ Outstanding = SumFunctionOnSet(b, Owing)
  BY DEF SumFunction, Outstanding, OpenOver
<1>6. SUFFICES SumFunctionOnSet(g, Buckets) = SumFunctionOnSet(b, Owing)
  BY <1>5
<1>. HIDE DEF b, key, g
<1>. QED
  BY <1>1, <1>2, <1>3, <1>4, BucketsFinite, SumByKey

\* A document is past due in the aging exactly where days are counted.
LEMMA BucketMeetsDays ==
  ASSUME IInv, NEW days \in Int, NEW d \in Owing
  PROVE  Bucket(d, days) = "NOT_DUE" <=> OverdueDays(d, days) = 0
<1>1. d \in Docs /\ TypeOK
  BY DEF Owing, IInv
<1>2. Open(d) \in Int /\ (OpenBalance(d) = 0 <=> Open(d) <= 0)
  BY <1>1, OpenFacts
<1>3. Max({0, days}) = IF days >= 0 THEN days ELSE 0
  BY MaxZero
<1>4. Bucket(d, days) = "NOT_DUE" <=> OpenBalance(d) = 0 \/ days <= 0
  BY DEF Bucket
<1>5. OverdueDays(d, days) = 0 <=> Open(d) <= 0 \/ days <= 0
  BY <1>1, <1>2, <1>3 DEF OverdueDays
<1>. QED
  BY <1>2, <1>4, <1>5

\* The advance screens add up to the account of advances received.
LEMMA RemainingAddsUp ==
  ASSUME IInv
  PROVE  SumFunctionOnSet([a \in Docs |-> Remaining(a)],
                          {a \in Invoices : doc[a].kind = "ADVANCE_INVOICE"})
           = AdvancesAccount
<1> DEFINE r == [a \in Docs |-> Remaining(a)]
           l == [a \in Docs |-> doc[a].total - AppliedFrom(a)]
<1>0. TypeOK /\ AdvancesNotOverdrawn
  BY DEF IInv
<1>1. {a \in Invoices : doc[a].kind = "ADVANCE_INVOICE"} = Advances
  BY DEF Invoices, Advances
<1>2. IsFiniteSet(Advances)
  BY SettlementAssumption, FS_Subset DEF Advances
<1>3. \A a \in Advances : r[a] = l[a]
  <2>. SUFFICES ASSUME NEW a \in Advances PROVE Remaining(a) = doc[a].total - AppliedFrom(a)
    BY DEF Advances
  <2>1. a \in Docs /\ Issued(a)
    BY DEF Advances
  <2>2. doc[a].total \in Nat /\ AppliedFrom(a) \in Nat /\ AppliedFrom(a) <= doc[a].total
    BY <1>0, <2>1, AppliedFromNat DEF TypeOK, Doc, AdvancesNotOverdrawn
  <2>. QED
    BY <2>2, MaxZero DEF Remaining
<1>4. AdvancesLeft = SumFunctionOnSet(l, Advances)
  BY DEF AdvancesLeft, Advances
<1>5. SumFunctionOnSet(r, Advances) = SumFunctionOnSet(l, Advances)
  <2>. HIDE DEF r, l
  <2>. QED  BY <1>2, <1>3, SumSame
<1>. QED
  BY <1>1, <1>4, <1>5, AdvancesMeet

\* The invariant makes the reports agree.
LEMMA ReportsFromInv == IInv => ReportsAgree
BY StatementMeetsBalance, AgingAddsUp, BucketMeetsDays, RemainingAddsUp,
   SalesReportsAssumption DEF ReportsAgree

\* Statement, balance, aging and advance screen agree after every step
\* (customerStatement, customerBalance, salesAging, getInvoiceAdvanceState).
THEOREM CustomerReportsAgree == Spec => []ReportsAgree
BY ReportsFromInv, SettlementInvariant, PTL

(***************************************************************************)
(* The reports of the books.                                               *)
(***************************************************************************)

\* The recursion that adds up a list, and the sum over its positions, agree.
LEMMA TotalIsSum ==
  ASSUME NEW amounts \in Seq(Nat)
  PROVE  Total(amounts) = SumFunctionOnSet(amounts, DOMAIN amounts)
<1> DEFINE n == Len(amounts)
           I == 0 .. n
           Adds(g) == g = [k \in I |-> IF k = 0 THEN 0 ELSE amounts[k] + g[k - 1]]
           h == [k \in I |-> SumFunctionOnSet(amounts, 1 .. k)]
<1>1. n \in Nat /\ DOMAIN amounts = 1 .. n /\ \A k \in 1 .. n : amounts[k] \in Nat
  OBVIOUS
<1>2. Total(amounts) = (CHOOSE g : Adds(g))[n]
  BY DEF Total
<1>. HIDE DEF n
<1>3. Adds(h)
  <2>1. ASSUME NEW k \in I
        PROVE  h[k] = IF k = 0 THEN 0 ELSE amounts[k] + h[k - 1]
    <3>1. CASE k = 0
      <4>1. 1 .. k = {}
        BY <3>1
      <4>. QED
        BY <3>1, <4>1, SumEmpty
    <3>2. CASE k # 0
      <4>1. /\ IsFiniteSet(1 .. k) /\ k \in 1 .. k /\ (1 .. k) \ {k} = 1 .. k - 1
            /\ k - 1 \in I
        <5>1. k \in Nat /\ k > 0 /\ k <= n
          BY <1>1, <3>2
        <5>2. IsFiniteSet(1 .. k)
          BY <5>1, FS_Interval
        <5>3. k \in 1 .. k /\ (1 .. k) \ {k} = 1 .. k - 1
          BY <5>1
        <5>4. k - 1 \in I
          BY <1>1, <5>1
        <5>. QED
          BY <5>2, <5>3, <5>4
      <4>2. \A x \in 1 .. k : amounts[x] \in Int
        BY <1>1
      <4>3. SumFunctionOnSet(amounts, 1 .. k)
              = amounts[k] + SumFunctionOnSet(amounts, (1 .. k) \ {k})
        BY <4>1, <4>2, SumTake
      <4>. QED
        BY <3>2, <4>1, <4>3
    <3>. QED
      BY <3>1, <3>2
  <2>. QED
    BY <2>1
<1> DEFINE g == CHOOSE x : Adds(x)
<1>4. Adds(g)
  BY <1>3
<1>5. \A k \in I : g[k] = IF k = 0 THEN 0 ELSE amounts[k] + g[k - 1]
  BY <1>4
<1>6. \A k \in I : h[k] = IF k = 0 THEN 0 ELSE amounts[k] + h[k - 1]
  BY <1>3
<1>7. IsFiniteSet(I)
  BY <1>1, FS_Interval
<1>8. h[n] = SumFunctionOnSet(amounts, 1 .. n)
  BY <1>1
<1>. HIDE DEF g, h, Adds
\* The first position where they differ would be one after a position where they do.
<1>9. \A k \in I : g[k] = h[k]
  <2>. SUFFICES ASSUME NEW k \in I, g[k] # h[k] PROVE FALSE
    OBVIOUS
  <2> DEFINE B == {0 .. j : j \in {i \in I : g[i] # h[i]}}
  <2>1. B \subseteq SUBSET I /\ B # {}
    BY <1>1
  <2>2. PICK T \in B : \A U \in B : U \subseteq T => U = T
    <3>. HIDE DEF B, I
    <3>. QED
      BY <1>7, <2>1, SmallestSubset
  <2>3. PICK j \in I : T = 0 .. j /\ g[j] # h[j]
    BY <2>2
  <2>4. j # 0
    BY <1>5, <1>6, <2>3
  <2>5. j - 1 \in I /\ g[j - 1] # h[j - 1]
    BY <1>1, <1>5, <1>6, <2>3, <2>4
  <2>6. 0 .. j - 1 \in B
    BY <2>5
  <2>7. 0 .. j - 1 \subseteq 0 .. j /\ 0 .. j - 1 # 0 .. j
    <3>1. j \in 0 .. j /\ j \notin 0 .. j - 1
      BY <1>1
    <3>. QED
      BY <1>1, <3>1
  <2>. QED
    BY <2>2, <2>3, <2>6, <2>7
<1>10. n \in I
  BY <1>1
<1>. QED
  BY <1>1, <1>2, <1>8, <1>9, <1>10 DEF g

\* What the lines of an entry debit and credit to an account.
LEMMA AccountsType ==
  ASSUME LedgerTypeOK, NEW e \in Entries, NEW a
  PROVE  DebitOf(e, a) \in Nat /\ CreditOf(e, a) \in Nat
<1> DEFINE s == book[e].lines
           f == [i \in DOMAIN s |-> s[i].debit]
           g == [i \in DOMAIN s |-> s[i].credit]
           S == LinesOf(e, a)
<1>1. s \in Seq(Line)
  BY DEF LedgerTypeOK, Row
<1>2. IsFiniteSet(S)
  <2>1. IsFiniteSet(1 .. Len(s)) /\ DOMAIN s = 1 .. Len(s)
    BY <1>1, FS_Interval
  <2>. QED
    BY <2>1, FS_Subset DEF LinesOf
<1>3. \A i \in S : f[i] \in Nat /\ g[i] \in Nat
  <2>. SUFFICES ASSUME NEW i \in S PROVE f[i] \in Nat /\ g[i] \in Nat
    OBVIOUS
  <2>1. i \in DOMAIN s
    BY DEF LinesOf
  <2>2. s[i] \in Line
    BY <1>1, <2>1
  <2>. QED
    BY <2>1, <2>2 DEF Line, Amount
<1>4. DebitOf(e, a) = SumFunctionOnSet(f, S) /\ CreditOf(e, a) = SumFunctionOnSet(g, S)
  BY DEF DebitOf, CreditOf
<1>. HIDE DEF f, g, S
<1>. QED
  BY <1>2, <1>3, <1>4, SumNat

\* The accounts share out what the lines of an entry add up to.
LEMMA AccountsShare ==
  ASSUME LedgerTypeOK, NEW e \in Entries
  PROVE  /\ SumFunction([a \in Accounts |-> DebitOf(e, a)]) = DebitTotal(book[e].lines)
         /\ SumFunction([a \in Accounts |-> CreditOf(e, a)]) = CreditTotal(book[e].lines)
<1> DEFINE s == book[e].lines
           D == DOMAIN s
           key == [i \in D |-> s[i].account]
<1>1. s \in Seq(Line) /\ D = 1 .. Len(s)
  BY DEF LedgerTypeOK, Row
<1>2. IsFiniteSet(D)
  BY <1>1, FS_Interval
<1>3. \A i \in D : s[i] \in Line /\ s[i].account \in Accounts /\ s[i].debit \in Nat /\ s[i].credit \in Nat
  <2>1. \A i \in D : s[i] \in Line
    BY <1>1
  <2>. QED
    BY <2>1 DEF Line, Amount
<1>4. key \in [D -> Accounts]
  BY <1>3
<1>5. ASSUME NEW f \in Seq(Nat), Len(f) = Len(s),
             NEW g, \A a \in Accounts : g[a] = SumFunctionOnSet(f, LinesOf(e, a))
      PROVE  SumFunctionOnSet(g, Accounts) = Total(f)
  <2>1. DOMAIN f = D /\ \A i \in D : f[i] \in Int
    BY <1>1, <1>5
  <2>2. \A a \in Accounts : g[a] = SumFunctionOnSet(f, Group(D, key, a))
    <3>. SUFFICES ASSUME NEW a \in Accounts PROVE LinesOf(e, a) = Group(D, key, a)
      BY <1>5
    <3>. QED
      BY DEF LinesOf, Group
  <2>3. SumFunctionOnSet(g, Accounts) = SumFunctionOnSet(f, D)
    <3>. HIDE DEF D, key
    <3>. QED
      BY <1>2, <1>4, <2>1, <2>2, ReportsAssumption, SumByKey
  <2>. QED
    BY <2>1, <2>3, TotalIsSum
<1> DEFINE f == [i \in D |-> s[i].debit]
           g == [i \in D |-> s[i].credit]
           F == [a \in Accounts |-> DebitOf(e, a)]
           G == [a \in Accounts |-> CreditOf(e, a)]
<1>6. /\ f \in Seq(Nat) /\ Len(f) = Len(s) /\ g \in Seq(Nat) /\ Len(g) = Len(s)
  <2>1. Len(s) \in Nat
    BY <1>1
  <2>2. f \in [1 .. Len(s) -> Nat] /\ g \in [1 .. Len(s) -> Nat]
    BY <1>1, <1>3
  <2>. QED
    <3>1. f \in Seq(Nat) /\ g \in Seq(Nat)
      BY <2>1, <2>2
    <3>2. DOMAIN f = 1 .. Len(s) /\ DOMAIN g = 1 .. Len(s)
      BY <1>1
    <3>. HIDE DEF f, g
    <3>. QED
      BY <2>1, <3>1, <3>2, LenProperties
<1>7. /\ \A a \in Accounts : F[a] = SumFunctionOnSet(f, LinesOf(e, a))
      /\ \A a \in Accounts : G[a] = SumFunctionOnSet(g, LinesOf(e, a))
  BY DEF DebitOf, CreditOf
<1>8. /\ SumFunction(F) = SumFunctionOnSet(F, Accounts) /\ DebitTotal(s) = Total(f)
      /\ SumFunction(G) = SumFunctionOnSet(G, Accounts) /\ CreditTotal(s) = Total(g)
  BY DEF SumFunction, DebitTotal, CreditTotal
<1>. SUFFICES SumFunction(F) = DebitTotal(s) /\ SumFunction(G) = CreditTotal(s)
  OBVIOUS
<1>. HIDE DEF f, g, F, G
<1>9. SumFunctionOnSet(F, Accounts) = Total(f)
  BY <1>5, <1>6, <1>7
<1>10. SumFunctionOnSet(G, Accounts) = Total(g)
  BY <1>5, <1>6, <1>7
<1>. QED
  BY <1>8, <1>9, <1>10

\* What the entries of a set leave on the accounts cancels out when each balances.
LEMMA BalancesCancel ==
  ASSUME LedgerTypeOK, PostedBalanced, NEW S \in SUBSET Counted
  PROVE  /\ \A a \in Accounts : Balance(S, a) \in Int
         /\ SumFunction([a \in Accounts |-> Balance(S, a)]) = 0
<1> DEFINE n == [e \in S |-> [a \in Accounts |-> DebitOf(e, a) - CreditOf(e, a)]]
           z == [e \in S |-> 0]
           B == [a \in Accounts |-> Balance(S, a)]
<1>1. S \subseteq Entries /\ IsFiniteSet(S) /\ IsFiniteSet(Accounts)
  BY ReportsAssumption, FS_Subset DEF Counted
<1>2. \A e \in S : \A a \in Accounts : n[e][a] \in Int
  <2>. SUFFICES ASSUME NEW e \in S, NEW a \in Accounts PROVE n[e][a] \in Int
    OBVIOUS
  <2>1. DebitOf(e, a) \in Nat /\ CreditOf(e, a) \in Nat
    BY <1>1, AccountsType
  <2>. QED
    BY <2>1
<1>3. \A e \in S : z[e] = SumFunctionOnSet(n[e], Accounts)
  <2>. SUFFICES ASSUME NEW e \in S PROVE SumFunctionOnSet(n[e], Accounts) = 0
    OBVIOUS
  <2> DEFINE F == [a \in Accounts |-> DebitOf(e, a)]
             G == [a \in Accounts |-> CreditOf(e, a)]
             m == n[e]
  <2>1. e \in Entries /\ Balanced(book[e].lines)
    BY <1>1 DEF Counted, PostedBalanced, InBooks, Postable
  <2>2. SumFunction(F) = SumFunction(G)
    BY <2>1, AccountsShare DEF Balanced
  <2>3. \A a \in Accounts : F[a] \in Int /\ G[a] \in Int /\ m[a] = F[a] - G[a]
    <3>. SUFFICES ASSUME NEW a \in Accounts
                  PROVE  F[a] \in Int /\ G[a] \in Int /\ m[a] = F[a] - G[a]
      OBVIOUS
    <3>1. DebitOf(e, a) \in Nat /\ CreditOf(e, a) \in Nat
      BY <2>1, AccountsType
    <3>. QED
      BY <3>1
  <2>4. SumFunctionOnSet(F, Accounts) = SumFunctionOnSet(G, Accounts)
    BY <2>2 DEF SumFunction
  <2>. HIDE DEF F, G, m, n
  <2>5. SumFunctionOnSet(m, Accounts)
          = SumFunctionOnSet(F, Accounts) - SumFunctionOnSet(G, Accounts)
    BY <1>1, <2>3, SumMinus
  <2>6. \A a \in Accounts : F[a] \in Int
    BY <2>3
  <2>7. SumFunctionOnSet(F, Accounts) \in Int
    BY <1>1, <2>6, SumInt
  <2>8. SumFunctionOnSet(m, Accounts) = 0
    BY <2>4, <2>5, <2>7
  <2>. QED
    BY <2>8 DEF m, n
<1>4. \A a \in Accounts : B[a] = SumFunctionOnSet(Column(n, S, a), S)
  <2>. SUFFICES ASSUME NEW a \in Accounts
                PROVE  Balance(S, a) = SumFunctionOnSet(Column(n, S, a), S)
    OBVIOUS
  <2> DEFINE h == [e \in Entries |-> DebitOf(e, a) - CreditOf(e, a)]
  <2>1. \A e \in S : h[e] = Column(n, S, a)[e]
    BY <1>1 DEF Column
  <2>2. Balance(S, a) = SumFunctionOnSet(h, S)
    BY DEF Balance
  <2>. HIDE DEF h, n
  <2>. QED
    BY <1>1, <2>1, <2>2, SumSame
<1>5. \A e \in S : z[e] = 0
  OBVIOUS
<1>6. SumFunction(B) = SumFunctionOnSet(B, Accounts)
  BY DEF SumFunction
<1>7. \A a \in Accounts : B[a] \in Int
  <2>. SUFFICES ASSUME NEW a \in Accounts PROVE B[a] \in Int
    OBVIOUS
  <2>1. \A e \in S : Column(n, S, a)[e] \in Int
    BY <1>2 DEF Column
  <2>2. B[a] = SumFunctionOnSet(Column(n, S, a), S)
    BY <1>4
  <2>. HIDE DEF n, B
  <2>. QED
    BY <1>1, <2>1, <2>2, SumInt
<1>. SUFFICES (\A a \in Accounts : B[a] \in Int) /\ SumFunction(B) = 0
  OBVIOUS
<1>. HIDE DEF n, z, B
<1>8. SumFunctionOnSet(z, S) = SumFunctionOnSet(B, Accounts)
  BY <1>1, <1>2, <1>3, <1>4, SumSwap
<1>9. SumFunctionOnSet(z, S) = 0
  BY <1>1, <1>5, SumZero
<1>. QED
  BY <1>6, <1>7, <1>8, <1>9

\* Figures that cancel out have as much above zero as below.
LEMMA ColumnsEqual ==
  ASSUME NEW S, IsFiniteSet(S), NEW f, \A x \in S : f[x] \in Int, SumFunctionOnSet(f, S) = 0,
         NEW g, \A x \in S : g[x] = -f[x]
  PROVE  SumFunctionOnSet(f, {x \in S : f[x] > 0}) = SumFunctionOnSet(g, {x \in S : f[x] < 0})
<1> DEFINE P == {x \in S : f[x] > 0}
           N == {x \in S : f[x] < 0}
           R == S \ P
           z == [x \in N |-> 0]
<1>1. /\ P \in SUBSET S /\ N \in SUBSET R /\ IsFiniteSet(P) /\ IsFiniteSet(N) /\ IsFiniteSet(R)
      /\ R = S \ P
  BY FS_Subset
<1>2. /\ \A x \in R : f[x] \in Int
      /\ \A x \in R \ N : f[x] = 0
      /\ \A x \in N : f[x] \in Int /\ g[x] \in Int /\ z[x] = f[x] + g[x]
      /\ \A x \in N : z[x] = 0
  OBVIOUS
<1>3. (\A x \in P : f[x] \in Int) /\ (\A x \in N : f[x] \in Int) /\ (\A x \in N : g[x] \in Int)
  OBVIOUS
<1>. HIDE DEF P, N, R, z
<1>4. SumFunctionOnSet(f, S) = SumFunctionOnSet(f, P) + SumFunctionOnSet(f, R)
  BY <1>1, SumSplit
<1>5. SumFunctionOnSet(f, R) = SumFunctionOnSet(f, N)
  BY <1>1, <1>2, SumSupport
<1>6. SumFunctionOnSet(z, N) = SumFunctionOnSet(f, N) + SumFunctionOnSet(g, N)
  BY <1>1, <1>2, SumPlus
<1>7. SumFunctionOnSet(z, N) = 0
  BY <1>1, <1>2, SumZero
<1>8. /\ SumFunctionOnSet(f, P) \in Int /\ SumFunctionOnSet(f, N) \in Int
      /\ SumFunctionOnSet(g, N) \in Int
  BY <1>1, <1>3, SumInt
<1>9. SumFunctionOnSet(f, P) = SumFunctionOnSet(g, N)
  BY <1>4, <1>5, <1>6, <1>7, <1>8
<1>. QED
  BY <1>9 DEF P, N

\* The trial balance is equal on every date: its two columns are the accounts
\* above and below zero, and all of them together are zero.
LEMMA TrialBalanceFromInv == LedgerTypeOK /\ PostedBalanced => TrialBalanceEqual
<1>. SUFFICES ASSUME LedgerTypeOK, PostedBalanced, NEW asOf \in Dates \union {NoDate}
              PROVE  DebitColumn(asOf) = CreditColumn(asOf)
  BY DEF TrialBalanceEqual
<1> DEFINE S == UpTo(asOf)
           f == [a \in Accounts |-> Balance(S, a)]
           g == [a \in Accounts |-> -Balance(S, a)]
           P == {a \in Accounts : f[a] > 0}
           N == {a \in Accounts : f[a] < 0}
<1>1. S \in SUBSET Counted
  BY DEF UpTo
<1>2. (\A a \in Accounts : Balance(S, a) \in Int) /\ SumFunction(f) = 0
  BY <1>1, BalancesCancel
<1>3. (\A a \in Accounts : f[a] \in Int) /\ (\A a \in Accounts : g[a] = -f[a])
  BY <1>2
<1>4. SumFunctionOnSet(f, Accounts) = 0
  BY <1>2 DEF SumFunction
<1>5. /\ DebitColumn(asOf) = SumFunctionOnSet(f, P)
      /\ CreditColumn(asOf) = SumFunctionOnSet(g, N)
  <2>1. /\ {a \in Accounts : Balance(S, a) > 0} = P
        /\ {a \in Accounts : Balance(S, a) < 0} = N
    OBVIOUS
  <2>. QED
    BY <2>1 DEF DebitColumn, CreditColumn
<1>. HIDE DEF S, f, g
<1>6. SumFunctionOnSet(f, P) = SumFunctionOnSet(g, N)
  BY <1>3, <1>4, ReportsAssumption, ColumnsEqual
<1>. QED
  BY <1>5, <1>6

\* The entries before a day and those of the range from it are those up to its end.
LEMMA LedgerMeets == LedgerTypeOK => LedgerMeetsTrialBalance
<1>. SUFFICES ASSUME LedgerTypeOK, NEW a \in Accounts, NEW from \in Dates,
                     NEW to \in Dates \union {NoDate}, to # NoDate => from <= to
              PROVE  ClosingBalance(a, from, to) = Balance(UpTo(to), a)
  BY DEF LedgerMeetsTrialBalance
<1> DEFINE S == UpTo(to)
           T == Before(from)
           h == [e \in Entries |-> DebitOf(e, a) - CreditOf(e, a)]
<1>1. S \subseteq Entries /\ IsFiniteSet(S)
  BY ReportsAssumption, FS_Subset DEF UpTo, Counted
<1>2. \A e \in Entries : book[e].date \in Nat
  BY ReportsAssumption DEF LedgerTypeOK, Row
<1>3. from \in Nat /\ from # NoDate /\ (to # NoDate => to \in Nat)
  BY ReportsAssumption
<1>4. T \in SUBSET S
  <2>. SUFFICES ASSUME NEW e \in T PROVE e \in S
    OBVIOUS
  <2>1. e \in Counted /\ book[e].date < from /\ book[e].date \in Nat
    BY <1>2, <1>3 DEF Before, Counted
  <2>2. to # NoDate => book[e].date <= to
    BY <1>3, <2>1
  <2>. QED
    BY <2>1, <2>2 DEF UpTo
<1>5. S \ T = From(from) \intersect UpTo(to)
  <2>1. ASSUME NEW e \in S
        PROVE  e \notin T <=> e \in From(from)
    <3>1. e \in Counted /\ book[e].date \in Nat
      BY <1>1, <1>2, <2>1 DEF UpTo
    <3>. QED
      BY <1>3, <3>1 DEF Before, From
  <2>. QED
    BY <2>1
<1>6. \A e \in S : h[e] \in Int
  <2>. SUFFICES ASSUME NEW e \in S PROVE h[e] \in Int
    OBVIOUS
  <2>1. DebitOf(e, a) \in Nat /\ CreditOf(e, a) \in Nat
    BY <1>1, AccountsType
  <2>. QED
    BY <1>1, <2>1
<1>7. /\ Balance(T, a) = SumFunctionOnSet(h, T) /\ Balance(S \ T, a) = SumFunctionOnSet(h, S \ T)
      /\ Balance(S, a) = SumFunctionOnSet(h, S)
  BY DEF Balance
<1>8. ClosingBalance(a, from, to) = Balance(T, a) + Balance(S \ T, a)
  BY <1>5 DEF ClosingBalance
<1>. HIDE DEF S, T, h
<1>9. SumFunctionOnSet(h, S) = SumFunctionOnSet(h, T) + SumFunctionOnSet(h, S \ T)
  BY <1>1, <1>4, <1>6, SumSplit
<1>. QED
  BY <1>7, <1>8, <1>9 DEF S

\* trialBalance answers balanced on every date, whatever was posted and reversed.
THEOREM TrialBalanceAlwaysEqual == LedgerSpec => []TrialBalanceEqual
BY TrialBalanceFromInv, LedgerTypeCorrect, LedgerBalanced, PTL

\* accountLedger closes with the figure of the trial balance.
THEOREM LedgerAlwaysMeets == LedgerSpec => []LedgerMeetsTrialBalance
BY LedgerMeets, LedgerTypeCorrect, PTL
=============================================================================
