----------------------------- MODULE VatEngine ------------------------------
(***************************************************************************)
(* calculateVat (vatEngineService.ts): from a treatment, a rate and a net  *)
(* amount to the VAT of a line, what of it is deductible, and the amounts  *)
(* its journal legs carry.  Amounts are in cents, rates in tenths of a     *)
(* percent, deductibility in percent.                                      *)
(***************************************************************************)
EXTENDS Integers

Treatment ==
  {"STANDARD", "REDUCED", "ZERO_RATED", "EXEMPT", "EU_GOODS_SUPPLY",
   "EU_GOODS_ACQUISITION", "EU_SERVICE_SUPPLY", "EU_SERVICE_ACQUISITION",
   "EXPORT", "IMPORT", "REVERSE_CHARGE", "CONSTRUCTION_REVERSE_CHARGE", "OWN_USE"}

Direction == {"SALES", "PURCHASE"}

Domestic == {"STANDARD", "REDUCED"}
ReverseCharged == {"REVERSE_CHARGE", "CONSTRUCTION_REVERSE_CHARGE"}

\* The buyer owes the VAT of these purchases itself.
SelfAssessed ==
  ReverseCharged \union {"EU_GOODS_ACQUISITION", "EU_SERVICE_ACQUISITION", "IMPORT"}

Untaxed ==
  {"ZERO_RATED", "EXEMPT", "EU_GOODS_SUPPLY", "EU_SERVICE_SUPPLY", "EXPORT", "OWN_USE"}

\* n/d, half a unit rounded up: Decimal's ROUND_HALF_UP for what is not negative.
Rounded(n, d) == (2 * n + d) \div (2 * d)

\* isTaxDirectionAllowed
DirectionAllowed(code, direction) == code.direction \in {"BOTH", direction}

Classification(treatment, direction) ==
  IF treatment \notin Domestic THEN treatment
  ELSE IF direction = "SALES" THEN "DOMESTIC_OUTPUT_VAT" ELSE "DOMESTIC_INPUT_VAT"

Leg == {"OUTPUT_VAT", "INPUT_VAT", "RC_OUTPUT_VAT", "RC_INPUT_VAT"}

(***************************************************************************)
(* tax is what the invoice shows.  A leg of 0 is no leg.                   *)
(***************************************************************************)
Vat(direction, code, net, deductible) ==
  LET standard == Rounded(net * code.rate, 1000)
      self == direction = "PURCHASE" /\ code.treatment \in SelfAssessed
      untaxed == \/ code.treatment \in Untaxed
                 \/ direction = "SALES" /\ code.treatment \in ReverseCharged
      tax == IF untaxed \/ self THEN 0 ELSE standard
      reportable == IF self THEN standard ELSE tax
      share == IF code.treatment = "EXEMPT" THEN 0 ELSE deductible
      deducted == IF direction = "PURCHASE" THEN Rounded(reportable * share, 100) ELSE 0
  IN [tax |-> tax, expense |-> net + reportable - deducted,
      class |-> Classification(code.treatment, direction),
      legs |-> [leg \in Leg |->
        CASE leg = "OUTPUT_VAT" /\ direction = "SALES" -> tax
          [] leg = "INPUT_VAT" /\ direction = "PURCHASE" /\ code.treatment \in Domestic -> deducted
          [] leg = "RC_OUTPUT_VAT" /\ self -> reportable
          [] leg = "RC_INPUT_VAT" /\ self -> deducted
          [] OTHER -> 0]]
=============================================================================
