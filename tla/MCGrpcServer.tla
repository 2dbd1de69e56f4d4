---------------------------- MODULE MCGrpcServer ----------------------------
(***************************************************************************)
(* Two handlers over two IDs: offers with a lender and a source, one of a  *)
(* type the server does not know, one Validate refuses, batches with and   *)
(* without the unknown type, and filters by a known and the unknown type.  *)
(***************************************************************************)
EXTENDS GrpcServer, TLC

CONSTANTS x, y, h1, h2

MCSymmetry == Permutations(Handlers)

Shape(id, type, valid) ==
    [id |-> id, valid |-> valid, lender |-> "l1", collateral |-> "sol", borrow |-> "usdc",
     type |-> type, liquidity |-> "pool", source |-> "marginfi", created |-> 0, updated |-> 0]

AnyOffer == [type |-> None, collateral |-> None, borrow |-> None, lender |-> None,
             liquidity |-> None, source |-> None, createdAfter |-> 0, createdBefore |-> 0,
             updatedAfter |-> 0, updatedBefore |-> 0]

MCInputs == {Shape(x, "V1", TRUE), Shape(y, "V1", FALSE), Shape(y, "other", TRUE)}
MCMessages == {Shape(x, "BP", TRUE)}
MCBatches == {<<>>, <<Shape(x, "V1", TRUE), Shape(y, "BP", TRUE)>>,
              <<Shape(x, "V1", TRUE), Shape(y, "other", TRUE)>>}
MCFilters == {None, [AnyOffer EXCEPT !.type = "V1"], [AnyOffer EXCEPT !.type = "other"]}
=============================================================================
