------------------------------- MODULE Offers -------------------------------
(***************************************************************************)
(* The data every component shares: margin offers, the overwrite filter,   *)
(* and the batches of offers that bulk calls carry.                        *)
(*                                                                         *)
(* A MarginOffer (types/margin_offer.go) is kept to the fields the store   *)
(* decides on: its ID, whether Validate accepts it, the three fields the   *)
(* indexes are keyed by, the two fields overwrite filters select on, and   *)
(* the two timestamps.  Amounts, rates and LTVs are read by no operation   *)
(* of the store other than Validate and List's ordering.                   *)
(***************************************************************************)
EXTENDS Naturals, Sequences, FiniteSets

CONSTANTS
    Ids,          \* offer IDs
    Lenders,      \* values of LenderAddress
    Tokens,       \* token mints, as collateral or as borrowed token
    Types,        \* values of OfferType
    Liquidities,  \* values of LiquiditySource
    Sources,      \* values of Source
    None          \* a nil pointer, an absent map entry

Offer == [id: Ids, valid: BOOLEAN, lender: Lenders \union {None},
          collateral: Tokens, borrow: Tokens, type: Types,
          liquidity: Liquidities, source: Sources \union {None},
          created: Nat, updated: Nat]

\* OverwriteFilter: a nil pointer is None, an unset time bound is 0.
Filter == [type: Types \union {None},
           collateral: Tokens \union {None}, borrow: Tokens \union {None},
           lender: Lenders \union {None}, liquidity: Liquidities \union {None},
           source: Sources \union {None},
           createdAfter: Nat, createdBefore: Nat,
           updatedAfter: Nat, updatedBefore: Nat]

CONSTANTS
    Inputs,       \* the offers callers pass to the single-offer calls
    Batches,      \* the sequences of offers callers pass to the bulk calls
    Filters       \* the filters callers pass to BulkOverwriteByFilter

ASSUME NoneAssumption ==
    /\ None \notin Lenders \union Types \union Tokens \union Liquidities \union Sources
    /\ None \notin Offer \union Filter
ASSUME CallAssumption ==
    /\ Inputs \subseteq Offer
    /\ Batches \subseteq Seq(Offer)
    /\ Filters \subseteq Filter \union {None}

-----------------------------------------------------------------------------
\* A table of offers: what the map `offers` holds, each offer under its own ID.
Table == {t \in [Ids -> Offer \union {None}] :
             \A id \in Ids : t[id] # None => t[id].id = id}
EmptyTable == [id \in Ids |-> None]

\* matchesOverwriteFilter.  filter.Source is not consulted.
MatchesOverwriteFilter(o, f) ==
    /\ f.type \in {None, o.type}
    /\ f.collateral \in {None, o.collateral}
    /\ f.borrow \in {None, o.borrow}
    /\ f.lender \in {None, o.lender}
    /\ f.liquidity \in {None, o.liquidity}
    /\ o.created >= f.createdAfter
    /\ f.createdBefore = 0 \/ o.created <= f.createdBefore
    /\ o.updated >= f.updatedAfter
    /\ f.updatedBefore = 0 \/ o.updated <= f.updatedBefore

\* identifyOffersToDelete: a nil filter selects every offer.
OffersToDelete(table, f) ==
    {id \in Ids : /\ table[id] # None
                  /\ f # None => MatchesOverwriteFilter(table[id], f)}

\* The offer as it is stored: the caller's, with both timestamps set.
Stamped(o, created, now) == [o EXCEPT !.created = created, !.updated = now]

\* "if offer.CreatedTimestamp.IsZero() { offer.CreatedTimestamp = now }"
CreatedOr(o, now) == IF o.created = 0 THEN now ELSE o.created

BatchIds(b) == {b[i].id : i \in DOMAIN b}
\* Mutant of AllValid: only the first offer of the batch is validated.
FirstValid(b) == b # <<>> => b[1].valid
AllValid(b) == \A i \in DOMAIN b : b[i].valid
Repeated(b) == {id \in BatchIds(b) :
                   \E i, j \in DOMAIN b : i # j /\ b[i].id = id /\ b[j].id = id}
=============================================================================
