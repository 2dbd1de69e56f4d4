--------------------------- MODULE MCNotification ---------------------------
(***************************************************************************)
(* Two subscriptions, one asking for everything and one for new offers of  *)
(* one type, and two changes of which the second matches only the first.   *)
(* The liveness run announces the first change only and has room for one   *)
(* subscription, so the other stream is refused or comes later.            *)
(***************************************************************************)
EXTENDS Notification, TLC

CONSTANTS s1, s2

Offer == [type |-> "V1", collateral |-> "sol", borrow |-> "usdc",
          liquidity |-> "pool", lender |-> None]
Every == [types |-> {"created", "updated", "overwritten"}, offerType |-> None,
          collateral |-> None, borrow |-> None, liquidity |-> None, lender |-> None]
MCRequest == s1 :> Every @@ s2 :> [Every EXCEPT !.types = {"created"}, !.offerType = "V1"]
MCOneChange == <<[type |-> "created", offer |-> Offer]>>
MCChanges == Append(MCOneChange, [type |-> "overwritten", offer |-> Offer])
=============================================================================
