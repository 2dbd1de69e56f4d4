--------------------------- MODULE MCMemoryStore ---------------------------
(***************************************************************************)
(* A small instance of MemoryStore: two IDs, offers in three shapes whose  *)
(* index keys overlap, one that Validate rejects, batches of up to two     *)
(* offers that repeat an ID or not, and filters by type and by time.       *)
(***************************************************************************)
EXTENDS MemoryStore, TLC

Shape(id, valid, lender, borrow, type, source, created) ==
    [id |-> id, valid |-> valid, lender |-> lender, collateral |-> "sol",
     borrow |-> borrow, type |-> type, liquidity |-> "pool", source |-> source,
     created |-> created, updated |-> 0]

MCSymmetry == Permutations(Ids)
MCLenders == {"l1"}
MCTokens == {"sol", "usdc"}
MCTypes == {"V1", "LV"}
MCLiquidities == {"pool"}
MCSources == {"marginfi", "chain"}

ShapeA(id) == Shape(id, TRUE, "l1", "usdc", "V1", "marginfi", 0)
ShapeB(id) == Shape(id, TRUE, None, "usdc", "LV", "chain", 1)
ShapeC(id) == Shape(id, TRUE, "l1", "sol", "V1", "chain", 0)
Bad(id) == Shape(id, FALSE, None, "usdc", "LV", "chain", 0)

MCInputs == {ShapeA(id) : id \in Ids} \union {ShapeB(id) : id \in Ids}
              \union {Bad(id) : id \in Ids}
\* Empty, rejected, single, two IDs in either order of shapes, one ID twice.
MCBatches ==
    {<<>>} \union
    UNION {LET other == CHOOSE o \in Ids : o # id
           IN  {<<ShapeB(id), Bad(other)>>, <<ShapeC(id)>>,
                <<ShapeB(id), ShapeC(other)>>, <<ShapeC(id), ShapeC(other)>>,
                <<ShapeB(id), ShapeC(id)>>, <<ShapeC(id), ShapeB(id)>>} : id \in Ids}

AnyOffer == [type |-> None, collateral |-> None, borrow |-> None, lender |-> None,
        liquidity |-> None, source |-> None, createdAfter |-> 0,
        createdBefore |-> 0, updatedAfter |-> 0, updatedBefore |-> 0]
MCFilters == {None, [AnyOffer EXCEPT !.type = "V1"],
              [AnyOffer EXCEPT !.source = "marginfi", !.updatedBefore = 2]}

\* An overwrite restricted to one source and to nothing else.
MCSourceFilters == {[AnyOffer EXCEPT !.source = "marginfi"]}
=============================================================================
