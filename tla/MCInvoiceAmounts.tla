-------------------------- MODULE MCInvoiceAmounts --------------------------
EXTENDS InvoiceAmounts

TaxRow(treatment, direction, rate, deductible) ==
  [treatment |-> treatment, direction |-> direction, rate |-> rate,
   deductible |-> deductible, active |-> TRUE]

\* The Finnish standard and reduced rates, and two codes the buyer pays the VAT of.
MCCode == [std |-> TaxRow("STANDARD", "BOTH", 255, 50),
           red |-> TaxRow("REDUCED", "SALES", 135, 100),
           con |-> TaxRow("CONSTRUCTION_REVERSE_CHARGE", "BOTH", 255, 100),
           eu  |-> TaxRow("EU_GOODS_ACQUISITION", "BOTH", 255, 33)]

\* The standard rate is a statutory code, the reduced one the tenant's own; a
\* code for what is exempt may be added.
MCStatutory == {"std"}
MCPatches == [std |-> {[MCCode["std"] EXCEPT !.deductible = 100]},
              red |-> {[MCCode["red"] EXCEPT !.rate = 140],
                       [MCCode["red"] EXCEPT !.active = FALSE]},
              exe |-> {TaxRow("EXEMPT", "BOTH", 255, 100)}]

Line(account, code, quantity, price, percent) ==
  [account |-> account, code |-> code, quantity |-> quantity, price |-> price,
   percent |-> percent]

Standard == Line("Services", "std", 1000, 333, 0)
Reduced == Line("Services", "red", 1000, 334, 0)

\* Halves of a cent, thirds, a free line, and two lines of one group.
SalesLine ==
  {Standard, Reduced,
   Line("Goods", "con", 1005, 100, 50), Line("Services", "eu", 1500, 67, 10),
   Line("Goods", "exe", 1000, 0, 0)}
PurchaseLine ==
  {Line("Office", "std", 1000, 333, 0), Line("Office", "eu", 1000, 199, 0),
   Line("Travel", "con", 1500, 67, 0), Line("Travel", "exe", 1000, 100, 0),
   Line("Office", "red", 1000, 0, 0)}

Free == Line("Goods", "exe", 1000, 0, 0)
NotForPurchases == Line("Office", "red", 1000, 0, 0)

Paired == {Standard, Reduced, Line("Goods", "con", 1005, 100, 50)}

One(S) == [1 .. 1 -> S]
Two(S) == [1 .. 2 -> S]

\* Three lines that share a discount with cents left over.
Three == [1 .. 3 -> {Standard, Reduced}]

Drafts(kind, lists, percents, amounts) ==
  [kind : {kind}, lines : lists, percent : percents, amount : amounts]

MCInputs ==
  Drafts("SALES_INVOICE", One(SalesLine), {0}, {0})
  \union Drafts("SALES_INVOICE", One({Standard, Free}), {0}, {5})
  \union Drafts("SALES_INVOICE", One({Reduced}) \union Two(Paired), {33}, {0})
  \union Drafts("SALES_INVOICE", Two(Paired), {0}, {0, 2345})
  \union Drafts("SALES_INVOICE", {<<Standard, Free>>}, {0}, {5, 2345})
  \union Drafts("SALES_INVOICE", Three, {0}, {100, 2345})
  \union Drafts("ADVANCE_INVOICE", One({Standard, Reduced}), {33}, {0})
  \union Drafts("PURCHASE_INVOICE", One(PurchaseLine), {0}, {0})
  \union Drafts("PURCHASE_INVOICE", Two(PurchaseLine \ {NotForPurchases}), {0}, {0})

MCSelections ==
  {<<[line |-> 1, quantity |-> 1005]>>,
   <<[line |-> 2, quantity |-> 500], [line |-> 1, quantity |-> 333]>>}
=============================================================================
