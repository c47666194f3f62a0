--------------------------- MODULE InvoiceAmounts ---------------------------
(***************************************************************************)
(* From the lines of an invoice to its totals and its journal entry, and   *)
(* from the entries to the VAT summary (salesService.ts, salesMath.ts,     *)
(* purchaseService.ts, vatSummary in accountingService.ts).                *)
(*                                                                         *)
(* Settlement and Purchases take totals for granted; this module is where  *)
(* they come from.  Amounts are in cents, quantities in thousandths, an    *)
(* invoice's discount in tenths of a cent, which is where rounding shows.  *)
(* Tax codes change while drafts wait: a purchase keeps the rates of the   *)
(* day it was entered, a sale takes those of the day it is issued, and a   *)
(* credit note those of the day it is made.                                *)
(***************************************************************************)
EXTENDS VatEngine, Sequences, FiniteSets, FiniteSetsExt, Functions

CONSTANTS
  Code,       \* tax_codes: treatment, direction, rate, deductibility, is_active
  Patches,    \* rows that codes may be created with or changed to
  Statutory,  \* the codes with is_system
  MaxChanges, \* bound on the changes of tax codes
  Inputs,     \* what a client may ask for: a draft with its lines and discount
  Selections, \* the lines and quantities a partial credit note may name
  MaxLines,   \* bound on the lines of all documents
  MaxNotes    \* bound on the credit notes

TaxCode == [treatment : Treatment, direction : Direction \union {"BOTH"},
            rate : Nat, deductible : 0 .. 100, active : BOOLEAN]

InputLine == [account : STRING, code : STRING, quantity : Nat, price : Nat, percent : 0 .. 100]

Input == [kind : {"SALES_INVOICE", "ADVANCE_INVOICE", "PURCHASE_INVOICE"},
          lines : Seq(InputLine), percent : 0 .. 100, amount : Nat]

Selection == Seq([line : Nat, quantity : Nat])

ASSUME InvoiceAmountsAssumption ==
  /\ Code \in [DOMAIN Code -> TaxCode] /\ DOMAIN Code \subseteq STRING
  /\ Patches \in [DOMAIN Patches -> SUBSET TaxCode] /\ DOMAIN Patches \subseteq STRING
  /\ Statutory \subseteq DOMAIN Code
  \* a purchase is posted as it is, nothing is taken off
  /\ Inputs \subseteq Input
  /\ \A input \in Inputs : input.kind = "PURCHASE_INVOICE" => input.percent = 0 /\ input.amount = 0
  /\ Selections \subseteq Selection
  /\ MaxChanges \in Nat /\ MaxLines \in Nat /\ MaxNotes \in Nat

VARIABLES
  codes,   \* the rows of tax_codes
  changes, \* how many of them have changed
  draft,   \* the invoice being prepared, with the tax codes as its lines took them
  docs,    \* the documents issued or posted
  books    \* their journal entries

amountVars == <<codes, changes, draft, docs, books>>

NoLines == <<>>
Draft(input, taxes) ==
  [kind |-> input.kind, lines |-> input.lines, percent |-> input.percent,
   amount |-> input.amount, taxes |-> taxes]

NoDraft == [kind |-> "SALES_INVOICE", lines |-> NoLines, percent |-> 0, amount |-> 0,
            taxes |-> <<>>]

AmountsInit == codes = Code /\ changes = 0 /\ draft = NoDraft /\ docs = <<>> /\ books = <<>>
-----------------------------------------------------------------------------
\* cents(quantity * unit_price), less the discount of the line.
LineNet(line) ==
  LET base == Rounded(line.quantity * line.price, 1000)
  IN  base - Rounded(base * line.percent, 100)

Nets(lines) == [i \in DOMAIN lines |-> LineNet(lines[i])]
NetSum(nets) == SumFunction(nets)

\* The discount of the invoice in tenths of a cent: a share of the nets in whole
\* cents, or the amount that was entered.
Discount(input) ==
  IF input.percent > 0 THEN 10 * Rounded(NetSum(Nets(input.lines)) * input.percent, 100)
  ELSE input.amount

\* Mutant: the cents left over go to the first lines.
SharesMutant(nets, discount) ==
  LET whole == 10 * NetSum(nets)
      down == [i \in DOMAIN nets |-> (nets[i] * discount) \div whole]
      left == (discount - 10 * NetSum(down)) \div 10
  IN  [i \in DOMAIN nets |-> down[i] + (IF i <= left THEN 1 ELSE 0)]

(***************************************************************************)
(* allocateInvoiceDiscount: shares are rounded down, and the whole cents   *)
(* left over go to the lines with the largest fractions, one cent each,    *)
(* the earlier line first where fractions are equal.                       *)
(***************************************************************************)
Shares(nets, discount) ==
  LET whole == 10 * NetSum(nets)
      down == [i \in DOMAIN nets |-> (nets[i] * discount) \div whole]
      fraction == [i \in DOMAIN nets |-> (nets[i] * discount) % whole]
      left == (discount - 10 * NetSum(down)) \div 10
      Before(i) == {j \in DOMAIN nets : \/ fraction[j] > fraction[i]
                                        \/ fraction[j] = fraction[i] /\ j < i}
  IN  [i \in DOMAIN nets |->
         down[i] + (IF Cardinality(Before(i)) < left THEN 1 ELSE 0)]

DiscountShares(input) ==
  LET nets == Nets(input.lines)
  IN  IF Discount(input) = 0 THEN [i \in DOMAIN nets |-> 0]
      ELSE Shares(nets, Discount(input))

Side(kind) == IF kind = "PURCHASE_INVOICE" THEN "PURCHASE" ELSE "SALES"

\* The lines as they are stored: net after the discount, and the VAT on that by
\* the given tax codes.
Computed(input, taxes) ==
  [i \in DOMAIN input.lines |->
     LET line == input.lines[i]
         net == LineNet(line) - DiscountShares(input)[i]
     IN  [account |-> line.account, code |-> line.code, net |-> net,
          vat |-> Vat(Side(input.kind), taxes[line.code], net, taxes[line.code].deductible)]]

NetTotal(lines) == SumFunction([i \in DOMAIN lines |-> lines[i].net])
TaxTotal(lines) == SumFunction([i \in DOMAIN lines |-> lines[i].vat.tax])
TotalOf(lines) == NetTotal(lines) + TaxTotal(lines)
-----------------------------------------------------------------------------
(***************************************************************************)
(* Journal lines.  A positive amount debits, a negative one credits.       *)
(***************************************************************************)
JournalLine(account, code, leg, class, amount) ==
  [account |-> account, code |-> code, leg |-> leg, class |-> class, amount |-> amount]

Plain(account, amount) == JournalLine(account, "NONE", "NONE", "NONE", amount)

NotNothing(entry) == {x \in entry : x.amount # 0}

\* Lines with the same account and key become one journal line, with the tax
\* code and the classification of the first of them.
Grouped(lines, account, key, leg, amount) ==
  LET Group(i) == {j \in DOMAIN lines : account[j] = account[i] /\ key[j] = key[i]}
      First(i) == lines[Min(Group(i))]
  IN  {JournalLine(account[i], First(i).code, leg, First(i).vat.class,
                   SumFunction([j \in Group(i) |-> amount[j]])) : i \in DOMAIN lines}

\* What the lines have in a column.
Each(lines, column(_)) == [i \in DOMAIN lines |-> column(lines[i])]

Accounts(lines) == Each(lines, LAMBDA l : l.account)
Codes(lines) == Each(lines, LAMBDA l : l.code)

\* Mutant: all the VAT of an invoice is one group.
SalesLinesMutant(lines, sign) ==
  NotNothing(
    Grouped(lines, Accounts(lines), Codes(lines), "REVENUE",
            Each(lines, LAMBDA l : -sign * l.net))
    \union Grouped(lines, Each(lines, LAMBDA l : "VAT payable"), Each(lines, LAMBDA l : "VAT"),
                   "OUTPUT_VAT", Each(lines, LAMBDA l : -sign * l.vat.tax)))

\* Revenue by account and tax code, VAT by tax code; groups of nothing are skipped.
SalesLines(lines, sign) ==
  NotNothing(
    Grouped(lines, Accounts(lines), Codes(lines), "REVENUE",
            Each(lines, LAMBDA l : -sign * l.net))
    \union Grouped(lines, Each(lines, LAMBDA l : "VAT payable"), Codes(lines),
                   "OUTPUT_VAT", Each(lines, LAMBDA l : -sign * l.vat.tax)))

InvoiceEntry(lines, used) ==
  NotNothing({Plain("Receivables", TotalOf(lines) - used),
              Plain("Advances received", used)})
    \union SalesLines(lines, 1)

AdvanceEntry(lines) ==
  {Plain("Receivables", TotalOf(lines)), Plain("Advances received", -TotalOf(lines))}

NoteEntry(lines) == {Plain("Receivables", -TotalOf(lines))} \union SalesLines(lines, -1)

\* Expenses by account alone, with the VAT that cannot be deducted; the legs by
\* account and tax code; what the supplier is owed.
PurchaseEntry(lines) ==
  LET Legs(leg, account, sign) ==
        NotNothing(Grouped(lines, Each(lines, LAMBDA l : account), Codes(lines), leg,
                           Each(lines, LAMBDA l : sign * l.vat.legs[leg])))
  IN Grouped(lines, Accounts(lines), Each(lines, LAMBDA l : "any"), "EXPENSE",
             Each(lines, LAMBDA l : l.vat.expense))
     \union Legs("INPUT_VAT", "Input VAT", 1)
     \union Legs("RC_INPUT_VAT", "Reverse charge input", 1)
     \union Legs("RC_OUTPUT_VAT", "Reverse charge output", -1)
     \union {Plain("Payables", -TotalOf(lines))}

Reversed(entry) == {[x EXCEPT !.amount = -@] : x \in entry}

\* What postEntryInTransaction asks of the lines: two of them, none of nothing.
PostableLines(entry) == Cardinality(entry) >= 2 /\ NotNothing(entry) = entry

PostedEntry(entry) == Append(books, [status |-> "POSTED", lines |-> entry])
-----------------------------------------------------------------------------
Document(kind, lines, input) ==
  [kind |-> kind, lines |-> lines, input |-> input, total |-> TotalOf(lines),
   used |-> 0, applied |-> 0, credited |-> 0, status |-> "ISSUED", entry |-> Len(books) + 1]

LineCount(ds) == SumFunction([d \in DOMAIN ds |-> Len(ds[d].lines)])
Notes(ds) == {d \in DOMAIN ds : ds[d].kind = "SALES_CREDIT_NOTE"}

\* loadTaxCodesForDate finds the active codes only, and those must be meant for
\* the direction.  (The dates between which a code is effective act likewise.)
CodesUsable(lines, side) ==
  \A i \in DOMAIN lines :
    /\ lines[i].code \in DOMAIN codes
    /\ codes[lines[i].code].active
    /\ DirectionAllowed(codes[lines[i].code], side)

Taxes(lines) == [c \in {lines[i].code : i \in DOMAIN lines} |-> codes[c]]

\* createInvoiceDraft and createPurchaseDraft; the discount is a percentage or an
\* amount.
CreateInvoiceDraft(input) ==
  /\ draft = NoDraft
  /\ LineCount(docs) + Len(input.lines) <= MaxLines
  /\ input.percent = 0 \/ input.amount = 0
  /\ CodesUsable(input.lines, Side(input.kind))
  /\ draft' = Draft(input, Taxes(input.lines))
  /\ UNCHANGED <<codes, changes, docs, books>>

ChangeTaxCode(c, row) ==
  /\ changes < MaxChanges
  /\ codes' = [x \in DOMAIN codes \union {c} |-> IF x = c THEN row ELSE codes[x]]
  /\ changes' = changes + 1
  /\ UNCHANGED <<draft, docs, books>>

\* createTaxCode
CreateTaxCode(c, row) == c \notin DOMAIN codes /\ ChangeTaxCode(c, row)

\* updateTaxCode lets a statutory code change in what is not its definition only.
UpdateTaxCode(c, row) ==
  /\ c \in DOMAIN codes /\ codes[c] # row
  /\ c \in Statutory =>
       [row EXCEPT !.deductible = codes[c].deductible, !.active = codes[c].active] = codes[c]
  /\ ChangeTaxCode(c, row)

\* The discount is at most the nets of the lines.
Discountable(input) == Discount(input) <= 10 * NetSum(Nets(input.lines))

\* What may still be taken of an advance invoice.
Left(a) == docs[a].total - docs[a].applied

\* issueInvoice of an advance invoice or of an invoice that uses no advance: the
\* lines are computed anew.
Issue ==
  LET lines == Computed(draft, codes)
      entry == IF draft.kind = "ADVANCE_INVOICE" THEN AdvanceEntry(lines)
               ELSE InvoiceEntry(lines, 0)
  IN /\ draft # NoDraft /\ draft.kind # "PURCHASE_INVOICE"
     /\ CodesUsable(draft.lines, "SALES") /\ Discountable(draft)
     /\ TotalOf(lines) > 0 /\ PostableLines(entry)
     /\ docs' = Append(docs, Document(draft.kind, lines, draft))
     /\ books' = PostedEntry(entry)
     /\ draft' = NoDraft
     /\ UNCHANGED <<codes, changes>>

\* issueInvoice with an advance allocation.
IssueWithAdvance(a, amount) ==
  LET lines == Computed(draft, codes)
      entry == InvoiceEntry(lines, amount)
  IN /\ draft # NoDraft /\ draft.kind = "SALES_INVOICE"
     /\ CodesUsable(draft.lines, "SALES") /\ Discountable(draft)
     /\ docs[a].kind = "ADVANCE_INVOICE" /\ docs[a].status = "ISSUED"
     /\ amount > 0 /\ amount <= Left(a)
     /\ TotalOf(lines) > 0 /\ amount <= TotalOf(lines) /\ PostableLines(entry)
     /\ docs' = Append([docs EXCEPT ![a].applied = @ + amount],
                       [Document(draft.kind, lines, draft) EXCEPT !.used = amount])
     /\ books' = PostedEntry(entry)
     /\ draft' = NoDraft
     /\ UNCHANGED <<codes, changes>>

\* postApprovedPurchase: the VAT is computed anew, by the tax codes as the lines
\* took them.
PostPurchase ==
  LET lines == Computed(draft, draft.taxes)
  IN /\ draft.kind = "PURCHASE_INVOICE" /\ PostableLines(PurchaseEntry(lines))
     /\ docs' = Append(docs, Document(draft.kind, lines, draft))
     /\ books' = PostedEntry(PurchaseEntry(lines))
     /\ draft' = NoDraft
     /\ UNCHANGED <<codes, changes>>

(***************************************************************************)
(* createCreditNote.  A full note repeats the lines and leaves out the     *)
(* discount of the invoice; a partial one names lines and quantities, the  *)
(* quantity rounded to hundredths.  Either takes the tax codes as they are *)
(* now, and may so take back more or less VAT than was invoiced.           *)
(***************************************************************************)
CreditLeft(d) == docs[d].total - docs[d].used - docs[d].credited

NoteInput(lines) ==
  [kind |-> "SALES_CREDIT_NOTE", lines |-> lines, percent |-> 0, amount |-> 0,
   taxes |-> Taxes(lines)]

Selected(d, selection) ==
  [k \in DOMAIN selection |->
     [docs[d].input.lines[selection[k].line]
        EXCEPT !.quantity = 10 * Rounded(selection[k].quantity, 10)]]

Selectable(d, selection) ==
  \A k \in DOMAIN selection :
    /\ selection[k].line \in DOMAIN docs[d].input.lines
    /\ selection[k].quantity \in 1 .. docs[d].input.lines[selection[k].line].quantity
    /\ docs[d].input.lines[selection[k].line].price > 0

Credit(d, noteLines, partial) ==
  LET lines == Computed(NoteInput(noteLines), codes)
      total == TotalOf(lines)
      credited == docs[d].credited + total
      fully == credited + 1 >= docs[d].total - docs[d].used
  IN /\ docs[d].kind \in {"SALES_INVOICE", "ADVANCE_INVOICE"} /\ docs[d].status = "ISSUED"
     /\ Cardinality(Notes(docs)) < MaxNotes /\ CodesUsable(noteLines, "SALES")
     /\ CreditLeft(d) > 0 /\ (~partial => docs[d].credited = 0 /\ docs[d].used = 0)
     /\ total > 0 /\ total <= CreditLeft(d) /\ PostableLines(NoteEntry(lines))
     /\ docs' = Append([docs EXCEPT ![d].credited = credited,
                                    ![d].status = IF fully THEN "CREDITED" ELSE @],
                       Document("SALES_CREDIT_NOTE", lines, NoteInput(noteLines)))
     /\ books' = PostedEntry(NoteEntry(lines))
     /\ UNCHANGED <<codes, changes, draft>>

CreditAll(d) == Credit(d, docs[d].input.lines, FALSE)
CreditSome(d, selection) ==
  Selectable(d, selection) /\ Credit(d, Selected(d, selection), TRUE)

\* correctPurchaseInvoice: the entry is REVERSED and its mirror posted.
CorrectPurchase(d) ==
  LET e == docs[d].entry
  IN /\ docs[d].kind = "PURCHASE_INVOICE" /\ docs[d].status = "ISSUED"
     /\ docs' = [docs EXCEPT ![d].status = "CORRECTED"]
     /\ books' = [PostedEntry(Reversed(books[e].lines)) EXCEPT ![e].status = "REVERSED"]
     /\ UNCHANGED <<codes, changes, draft>>

AmountsNext ==
  \/ \E input \in Inputs : CreateInvoiceDraft(input)
  \/ \E c \in DOMAIN Patches : \E row \in Patches[c] :
       CreateTaxCode(c, row) \/ UpdateTaxCode(c, row)
  \/ Issue
  \/ \E a \in DOMAIN docs : \E amount \in {1, Left(a)} : IssueWithAdvance(a, amount)
  \/ PostPurchase
  \/ \E d \in DOMAIN docs :
       \/ CreditAll(d)
       \/ \E selection \in Selections : CreditSome(d, selection)
       \/ CorrectPurchase(d)

AmountsSpec == AmountsInit /\ [][AmountsNext]_amountVars
-----------------------------------------------------------------------------
\* vatSummary: the lines of the POSTED entries, by classification and leg.
Said(e, class, legs) ==
  SumFunction([x \in {y \in books[e].lines : y.leg \in legs /\ y.class = class} |-> x.amount])

Debited(class, legs) ==
  SumFunction([e \in {k \in DOMAIN books : books[k].status = "POSTED"} |-> Said(e, class, legs)])

\* The classifications that occur; the others have nothing to add up.
Classes ==
  {x.class : x \in UNION {books[e].lines : e \in DOMAIN books}}
    \union UNION {{docs[d].lines[i].vat.class : i \in DOMAIN docs[d].lines} : d \in DOMAIN docs}

SalesAmount(class) == -Debited(class, {"REVENUE"})
PurchaseAmount(class) == Debited(class, {"EXPENSE"})
OutputVat(class) == -Debited(class, {"OUTPUT_VAT", "RC_OUTPUT_VAT"})
InputVat(class) == Debited(class, {"INPUT_VAT", "RC_INPUT_VAT"})
-----------------------------------------------------------------------------
\* A discount is handed out to the cent, no line is taken more than it costs or
\* more than a cent off its exact share, and a dearer line never gets less than
\* a cheaper one (allocateInvoiceDiscount).  What a discount has beyond whole
\* cents is dropped.
DiscountIsShared ==
  Discountable(draft) /\ Discount(draft) > 0 =>
    LET nets == Nets(draft.lines)
        shares == DiscountShares(draft)
        whole == 10 * NetSum(nets)
    IN /\ NetSum(shares) = Discount(draft) \div 10
       /\ \A i \in DOMAIN nets :
            /\ shares[i] \in 0 .. nets[i]
            /\ nets[i] * Discount(draft) - whole < whole * shares[i]
            /\ whole * shares[i] < nets[i] * Discount(draft) + whole
       /\ \A i, j \in DOMAIN nets : nets[i] > nets[j] => shares[i] >= shares[j]

\* The lines of the documents that say something of a class, with their sign: a
\* credit note takes back, and so does a corrected purchase, whose own entry is
\* no longer counted while its mirror is.
Sign(d) ==
  IF docs[d].kind = "SALES_CREDIT_NOTE" \/ docs[d].status = "CORRECTED" THEN -1 ELSE 1

Figure(line, leg) ==
  IF leg = "REVENUE" THEN line.net
  ELSE IF leg = "EXPENSE" THEN line.vat.expense ELSE line.vat.legs[leg]

OverLines(lines, class, leg) ==
  SumFunction([i \in {j \in DOMAIN lines : lines[j].vat.class = class} |-> Figure(lines[i], leg)])

OverDocuments(kinds, class, leg) ==
  SumFunction([d \in {k \in DOMAIN docs : docs[k].kind \in kinds} |->
                 Sign(d) * OverLines(docs[d].lines, class, leg)])

SalesKinds == {"SALES_INVOICE", "SALES_CREDIT_NOTE"}
PurchaseKinds == {"PURCHASE_INVOICE"}

\* However its lines are discounted, rounded and grouped, an invoice balances to
\* the cent and never has to be refused by the books; and the VAT summary says
\* per classification what the lines of the documents say (purchases in total:
\* expenses are grouped without regard to their tax code).
BooksMeetDocuments ==
  /\ \A e \in DOMAIN books : SumFunction([x \in books[e].lines |-> x.amount]) = 0
  /\ \A class \in Classes :
       /\ SalesAmount(class) = OverDocuments(SalesKinds, class, "REVENUE")
       /\ OutputVat(class) = OverDocuments(SalesKinds, class, "OUTPUT_VAT")
                               + OverDocuments(PurchaseKinds, class, "RC_OUTPUT_VAT")
       /\ InputVat(class) = OverDocuments(PurchaseKinds, class, "INPUT_VAT")
                              + OverDocuments(PurchaseKinds, class, "RC_INPUT_VAT")
  /\ SumFunction([class \in Classes |-> PurchaseAmount(class)]) =
       SumFunction([class \in Classes |-> OverDocuments(PurchaseKinds, class, "EXPENSE")])
=============================================================================
