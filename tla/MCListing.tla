----------------------------- MODULE MCListing -----------------------------
(***************************************************************************)
(* Three IDs, one of them in two versions that differ in type, lender and  *)
(* creation time; two of the offers were created at the same moment, one   *)
(* of which has expired.  The largest page has two offers.                 *)
(***************************************************************************)
EXTENDS Listing

Shape(id, type, lender, source, amount, created, expired) ==
    [values |-> [f \in Fields |->
        CASE f = "id" -> id [] f = "type" -> type [] f = "lender" -> lender
          [] f = "source" -> source [] f = "amount" -> amount [] f = "created" -> created
          [] OTHER -> 1],
     expired |-> expired]

MCUniverse == {Shape(1, 1, 1, 1, 3, 5, FALSE), Shape(2, 1, 1, None, 2, 6, FALSE),
               Shape(2, 2, None, 2, 2, 4, FALSE), Shape(3, 1, None, 2, 1, 5, TRUE)}

All(limit) == [Everything(limit) EXCEPT !.includeExpired = TRUE]
By(f, v) == [NoKey EXCEPT ![f] = v]
Of(method, by, request) == [method |-> method, by |-> by, request |-> request]

ById(q) == [q EXCEPT !.sortBy = "unknown", !.sortOrder = "asc"]
MCCalls ==
    {Of("Pages", NoKey, ById(All(1))),
     Of("Pages", NoKey, [ById(Everything(3)) EXCEPT !.is = By("type", 1)]),
     Of("Pages", NoKey, All(0)),
     Of("Pages", NoKey, [Everything(1) EXCEPT !.min["amount"] = 2, !.activeOnly = TRUE]),
     Of("ListBy", By("lender", 1), Everything(2)),
     Of("ListBy", By("type", 1), ById([Everything(1) EXCEPT !.offset = 1])),
     Of("Count", NoKey, Everything(0)),
     Of("Pages", NoKey, [All(2) EXCEPT !.source = 1]),
     Of("List", NoKey, Only(By("type", 1), 2)),
     Of("CountByOfferType", By("type", 1), Everything(0)),
     Of("GetTotalLiquidity", By("borrow", 1), Everything(0))}
=============================================================================
