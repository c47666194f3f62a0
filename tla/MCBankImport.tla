---------------------------- MODULE MCBankImport ----------------------------
(***************************************************************************)
(* Two files that list two payments in opposite order; the later one also  *)
(* has a payment under the bank's identifier, which comes once more in a   *)
(* file of its own.  There is one account, and there may be a second one.  *)
(***************************************************************************)
EXTENDS BankImport, TLC

CONSTANTS a1, a2, i1, i2, newest, oldest, camt

Plain(k) == [key |-> k, external |-> None]
Known(k, x) == [key |-> k, external |-> x]

MCRows == {Plain(1), Plain(2), Known(3, 7)}
MCContents ==
  newest :> <<Plain(1), Plain(1), Plain(2)>> @@ oldest :> <<Plain(2), Known(3, 7), Plain(1)>>
    @@ camt :> <<Known(3, 7)>>
MCOpened == a1 :> i1 @@ a2 :> None
=============================================================================
