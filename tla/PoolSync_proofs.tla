-------------------------- MODULE PoolSync_proofs --------------------------
(***************************************************************************)
(* Theorems about PoolSync, for every set of calls, of accounts and of     *)
(* offer IDs, and every width of an amount.                                *)
(*                                                                         *)
(* An overwrite makes the leverage offers those of its own call or batch,  *)
(* so what a sync carries from its fetch to its overwrite has to be one    *)
(* fetch; other calls change the store in between, never what the sync     *)
(* carries.                                                                *)
(*                                                                         *)
(* The second part is about MarginfiSync, for any number of starts, forced *)
(* syncs and syncs under way: its one timer goes with its one start.       *)
(***************************************************************************)
EXTENDS PoolSync, MarginfiSync, FiniteSetTheorems, TLAPS

\* A sync holds what one fetch gave, or nothing, which counts as a fetch; a call that
\* fetches positions is one of SyncPoolsWithPositions.
CallsHoldFetches ==
    /\ {} \in fetched
    /\ \A c \in Syncs : call[c].offers \in fetched
    /\ \A c \in Calls : call[c].pc = "positions" => c \in WithPositions

\* The inductive invariant.
IInv == TypeOK /\ CallsHoldFetches /\ StoredIsOneFetch

CallStates == [pc: {"pools", "positions", "overwrite", "returned"},
               offers: SUBSET PoolOffer, result: {"none", "ok", "failed"}]

\* The difference of two amounts is an amount, though it may have wrapped around.
LEMMA OffersTyped ==
    ASSUME chain \in [Addresses -> Accounts \union {None}]
    PROVE  {ToMarginOffer(p) : p \in FetchAll("pool")} \subseteq PoolOffer
<1>1. FetchAll("pool") \subseteq Accounts BY DEF FetchAll, GetProgramAccounts
<1>2. ASSUME NEW p \in Accounts PROVE ToMarginOffer(p) \in PoolOffer
  <2>1. p.wallet \in Ids /\ p.max \in 0..(Word - 1) /\ p.exposure \in 0..(Word - 1)
    BY PoolSyncAssumption
  <2> DEFINE n == Word + p.max - p.exposure
  <2>2. Word \in Nat \ {0} /\ n \in Nat BY <2>1, PoolSyncAssumption
  <2> HIDE DEF n
  <2>3. n % Word \in 0..(Word - 1) BY <2>2
  <2>4. QED BY <2>1, <2>3 DEF ToMarginOffer, PoolOffer, n
<1>3. QED BY <1>1, <1>2

\* At the start nothing is stored and nothing was fetched.
LEMMA InitIInv == Init => IInv
<1> SUFFICES ASSUME Init PROVE IInv OBVIOUS
<1>1. TypeOK BY DEF Init, TypeOK
<1>2. CallsHoldFetches BY DEF Init, CallsHoldFetches, Syncs
<1>3. Leverage = {} BY PoolSyncAssumption DEF Init, Leverage, Source
<1>4. StoredIsOneFetch BY <1>3 DEF Init, StoredIsOneFetch
<1>5. QED BY <1>1, <1>2, <1>4 DEF IInv

-----------------------------------------------------------------------------
\* A step that leaves the store alone.
LEMMA StoreStays ==
    ASSUME IInv, TypeOK', CallsHoldFetches', UNCHANGED stored, fetched \subseteq fetched'
    PROVE  IInv'
<1>1. Leverage' = Leverage BY DEF Leverage, Source
<1>2. StoredIsOneFetch' BY <1>1 DEF IInv, StoredIsOneFetch
<1>3. QED BY <1>2 DEF IInv

\* A call returns, with an answer.
LEMMA Returns ==
    ASSUME IInv, NEW c \in Calls, call[c].pc # "returned",
           NEW r \in {"ok", "failed"}, Return(c, r),
           UNCHANGED fetched, chain' = chain,
           stored' \in [Ids -> Stored \union {None}]
    PROVE  TypeOK' /\ CallsHoldFetches'
<1>1. call \in [Calls -> CallStates] BY DEF IInv, TypeOK, CallStates
<1>2. call' \in [Calls -> CallStates] BY <1>1 DEF Return, CallStates
<1>3. \A b \in Calls : call'[b].offers = call[b].offers BY <1>1 DEF Return, CallStates
<1>4. \A b \in Calls \ {c} : call'[b] = call[b] BY <1>1 DEF Return
<1>5. call'[c].pc = "returned" /\ call'[c].result = r BY <1>1 DEF Return, CallStates
<1>6. TypeOK' BY <1>2, <1>4, <1>5 DEF IInv, TypeOK, CallStates
<1>7. QED BY <1>3, <1>4, <1>5, <1>6 DEF IInv, CallsHoldFetches, Syncs

\* A fetch of pools gives the call the offers of one fetch, and no offers do not lead
\* SyncPoolsToStore to an overwrite.
LEMMA FetchPoolsKeeps ==
    ASSUME IInv, NEW c \in Calls, FetchPools(c)
    PROVE  IInv'
<1> DEFINE offers == {ToMarginOffer(p) : p \in FetchAll("pool")}
<1>1. /\ call[c].pc = "pools"
      /\ fetched' = IF c \in Jobs THEN fetched ELSE fetched \union {offers}
      /\ \/ /\ c \in WithPositions
            /\ call' = [call EXCEPT ![c].pc = "positions", ![c].offers = offers]
         \/ /\ c \in Jobs \/ offers # {}
            /\ call' = [call EXCEPT ![c].pc = "overwrite", ![c].offers = offers]
         \/ Return(c, "ok")
      /\ UNCHANGED <<chain, stored>>
  BY DEF FetchPools
<1>2. offers \in SUBSET PoolOffer BY OffersTyped DEF IInv, TypeOK
<1> HIDE DEF offers
<1>3. call \in [Calls -> CallStates] BY DEF IInv, TypeOK, CallStates
<1>4. call' \in [Calls -> CallStates] BY <1>1, <1>2, <1>3 DEF Return, CallStates
<1>5. \A b \in Calls \ {c} : call'[b] = call[b] BY <1>1, <1>3 DEF Return
<1>6. \/ /\ call'[c].pc = "positions" /\ call'[c].result = call[c].result
         /\ call'[c].offers = offers /\ c \in WithPositions
      \/ /\ call'[c].pc = "overwrite" /\ call'[c].result = call[c].result
         /\ call'[c].offers = offers /\ (c \in Jobs \/ offers # {})
      \/ /\ call'[c].pc = "returned" /\ call'[c].result = "ok"
         /\ call'[c].offers = call[c].offers
  BY <1>1, <1>3 DEF Return, CallStates
<1>7. call'[c].result = "none" <=> call'[c].pc # "returned"
  BY <1>1, <1>6 DEF IInv, TypeOK
<1>8. fetched' \subseteq SUBSET PoolOffer BY <1>1, <1>2 DEF IInv, TypeOK
<1>9. TypeOK'
  <2>1. ASSUME NEW b \in Calls
        PROVE  /\ call'[b].result = "none" <=> call'[b].pc # "returned"
               /\ call'[b].pc = "overwrite" /\ call'[b].offers = {}
                     => b \in WithPositions \union Jobs
    BY <1>5, <1>6, <1>7 DEF IInv, TypeOK
  <2>2. QED BY <1>1, <1>4, <1>8, <2>1 DEF IInv, TypeOK, CallStates
<1>10. CallsHoldFetches'
  <2>1. fetched \subseteq fetched' /\ (c \in Syncs => offers \in fetched') BY <1>1 DEF Syncs
  <2>2. ASSUME NEW b \in Syncs PROVE call'[b].offers \in fetched'
    BY <1>5, <1>6, <2>1 DEF IInv, CallsHoldFetches, Syncs
  <2>3. QED BY <1>5, <1>6, <2>1, <2>2 DEF IInv, CallsHoldFetches
<1>11. QED BY <1>1, <1>9, <1>10, StoreStays

\* A fetch of positions leads to the overwrite.
LEMMA FetchPositionsKeeps ==
    ASSUME IInv, NEW c \in Calls, FetchPositions(c)
    PROVE  IInv'
<1>1. call \in [Calls -> CallStates] BY DEF IInv, TypeOK, CallStates
<1>2. call' \in [Calls -> CallStates] BY <1>1 DEF FetchPositions, CallStates
<1>3. \A b \in Calls : call'[b].offers = call[b].offers /\ call'[b].result = call[b].result
  BY <1>1 DEF FetchPositions, CallStates
<1>4. \A b \in Calls \ {c} : call'[b] = call[b] BY <1>1 DEF FetchPositions
<1>5. call'[c].pc = "overwrite" /\ call[c].pc = "positions"
  BY <1>1 DEF FetchPositions, CallStates
<1>6. c \in WithPositions BY <1>5 DEF IInv, CallsHoldFetches
<1>7. TypeOK' BY <1>2, <1>3, <1>4, <1>5, <1>6 DEF IInv, TypeOK, CallStates, FetchPositions
<1>8. CallsHoldFetches'
  BY <1>3, <1>4, <1>6 DEF IInv, CallsHoldFetches, FetchPositions, Syncs
<1>9. QED BY <1>7, <1>8, StoreStays DEF FetchPositions

-----------------------------------------------------------------------------
\* An offer of the leverage program as the store holds it.
LeverageOffer(n) == [source |-> "leverage", available |-> n]

\* It can be stored, and is one of the leverage program.
LEMMA LeverageOfferTyped ==
    ASSUME NEW n \in 0..(Word - 1)
    PROVE  /\ LeverageOffer(n) \in Stored /\ LeverageOffer(n) # None
           /\ LeverageOffer(n).source = "leverage" /\ LeverageOffer(n).available = n
<1>1. LeverageOffer(n) \in Stored BY DEF LeverageOffer, Stored
<1>2. QED BY <1>1, PoolSyncAssumption DEF LeverageOffer

\* What the store holds of the leverage program after an overwrite that spares none of
\* its offers is what was kept.
LEMMA Replaced ==
    ASSUME stored \in [Ids -> Stored \union {None}], NEW offers \in SUBSET PoolOffer,
           NEW kept, Kept(offers, kept),
           NEW gone, {i \in Ids : Source(i) = "leverage"} \subseteq gone,
           stored' = Overwritten(kept, gone)
    PROVE  /\ stored' \in [Ids -> Stored \union {None}]
           /\ Leverage' = kept
           /\ \A o \in offers : stored'[o.id] # None
<1>1. kept \subseteq PoolOffer BY DEF Kept
<1>2. \A k \in kept : /\ k.id \in Ids /\ k.available \in 0..(Word - 1)
                      /\ k = [id |-> k.id, available |-> k.available]
  BY <1>1 DEF PoolOffer
<1>3. \A k \in kept : (CHOOSE l \in kept : l.id = k.id) = k BY DEF Kept
<1>4. \A k \in kept : stored'[k.id] = LeverageOffer(k.available)
  <2>1. ASSUME NEW k \in kept PROVE stored'[k.id] = LeverageOffer(k.available)
    BY <1>2, <1>3, <2>1 DEF Overwritten, LeverageOffer
  <2>2. QED BY <2>1
<1>5. ASSUME NEW i \in Ids, \A k \in kept : k.id # i
      PROVE  /\ stored'[i] = None \/ stored'[i] = stored[i]
             /\ Source(i) = "leverage" => stored'[i] = None
  BY <1>5 DEF Overwritten
<1>6. \A k \in kept : /\ stored'[k.id] \in Stored /\ stored'[k.id] # None
                      /\ stored'[k.id].source = "leverage"
                      /\ stored'[k.id].available = k.available
  BY <1>2, <1>4, LeverageOfferTyped
<1>7. stored' \in [Ids -> Stored \union {None}]
  <2>1. DOMAIN stored' = Ids /\ stored' = [i \in Ids |-> stored'[i]]
    BY DEF Overwritten
  <2>2. ASSUME NEW i \in Ids PROVE stored'[i] \in Stored \union {None}
    <3>1. CASE \E k \in kept : k.id = i BY <1>6, <3>1
    <3>2. CASE \A k \in kept : k.id # i BY <1>5, <3>2
    <3>3. QED BY <3>1, <3>2
  <2>3. QED BY <2>1, <2>2
<1>8. \A i \in Ids : Source(i)' = "leverage" <=> \E k \in kept : k.id = i
  <2>1. ASSUME NEW i \in Ids, NEW k \in kept, k.id = i PROVE Source(i)' = "leverage"
    BY <1>6, <2>1 DEF Source
  <2>2. ASSUME NEW i \in Ids, \A k \in kept : k.id # i PROVE Source(i)' # "leverage"
    BY <1>5, <2>2, PoolSyncAssumption DEF Source
  <2>3. QED BY <2>1, <2>2
<1>9. Leverage' = kept
  <2>1. ASSUME NEW k \in kept PROVE k \in Leverage'
    BY <1>2, <1>6, <1>8, <2>1 DEF Leverage
  <2>2. ASSUME NEW x \in Leverage' PROVE x \in kept
    <3>1. PICK i \in Ids : Source(i)' = "leverage"
                           /\ x = [id |-> i, available |-> stored'[i].available]
      BY DEF Leverage
    <3>2. PICK k \in kept : k.id = i BY <1>8, <3>1
    <3>3. stored'[i].available = k.available BY <1>6, <3>2
    <3>4. QED BY <1>2, <3>1, <3>2, <3>3
  <2>3. QED BY <2>1, <2>2
<1>10. \A o \in offers : stored'[o.id] # None
  <2>1. ASSUME NEW o \in offers PROVE stored'[o.id] # None
    <3>1. PICK k \in kept : k.id = o.id BY DEF Kept
    <3>2. QED BY <1>6, <3>1
  <2>2. QED BY <2>1
<1>11. QED BY <1>7, <1>9, <1>10

\* An overwrite leaves the leverage offers of its call, those of before if the store
\* refused it.
LEMMA OverwriteKeeps ==
    ASSUME IInv, NEW c \in Calls, Overwrite(c)
    PROVE  IInv'
<1>1. PICK r \in {"ok", "failed"} : Return(c, r) BY DEF Overwrite
<1>2. /\ call[c].pc = "overwrite" /\ c \in Syncs /\ UNCHANGED <<chain, fetched>>
      /\ UNCHANGED stored \/ \E kept \in SUBSET call[c].offers :
                                 Kept(call[c].offers, kept) /\ Replace(kept)
  BY DEF Overwrite
<1>3. stored \in [Ids -> Stored \union {None}]
      /\ call[c].offers \in SUBSET PoolOffer /\ call[c].offers \in fetched
  BY <1>2 DEF IInv, TypeOK, CallsHoldFetches
<1>4. CASE UNCHANGED stored
  <2>1. TypeOK' /\ CallsHoldFetches' BY <1>1, <1>2, <1>3, <1>4, Returns
  <2>2. QED BY <1>2, <1>4, <2>1, StoreStays
<1>5. ASSUME NEW kept \in SUBSET call[c].offers, Kept(call[c].offers, kept), Replace(kept)
      PROVE  IInv'
  <2>1. /\ stored' \in [Ids -> Stored \union {None}] /\ Leverage' = kept
        /\ \A o \in call[c].offers : stored'[o.id] # None
    BY <1>3, <1>5, Replaced DEF Replace
  <2>2. TypeOK' /\ CallsHoldFetches' BY <1>1, <1>2, <1>3, <2>1, Returns
  <2>3. StoredIsOneFetch' BY <1>2, <1>3, <2>1 DEF StoredIsOneFetch
  <2>4. QED BY <2>2, <2>3 DEF IInv
<1>6. QED BY <1>2, <1>4, <1>5

\* A fetch or an overwrite that fails changes nothing but its call.
LEMMA FailureKeeps ==
    ASSUME IInv, NEW c \in Calls, FetchFails(c) \/ OverwriteFails(c)
    PROVE  IInv'
<1>1. /\ call[c].pc # "returned" /\ Return(c, "failed") /\ UNCHANGED <<chain, stored, fetched>>
  BY DEF FetchFails, OverwriteFails
<1>2. stored \in [Ids -> Stored \union {None}] BY DEF IInv, TypeOK
<1>3. TypeOK' /\ CallsHoldFetches' BY <1>1, <1>2, Returns
<1>4. QED BY <1>1, <1>3, StoreStays

\* A batch of a job leaves the leverage offers of that batch; what the syncs hold is as
\* it was.
LEMMA BatchKeeps ==
    ASSUME IInv, NEW c \in Calls, OverwriteBatch(c)
    PROVE  IInv'
<1>1. PICK batch \in (SUBSET call[c].offers) \ {{}} :
         LET rest == [call EXCEPT ![c].offers = @ \ batch]
         IN  \/ call' = rest /\ UNCHANGED <<stored, fetched>>
             \/ /\ Valid /\ fetched' = fetched \union {batch}
                /\ \E kept \in SUBSET batch : Kept(batch, kept) /\ ReplaceStore(kept)
                /\ call' \in {rest, [rest EXCEPT ![c].pc = "returned",
                                                ![c].result = "failed"]}
  BY DEF OverwriteBatch
<1>2. call[c].pc = "overwrite" /\ c \in Jobs /\ chain' = chain BY DEF OverwriteBatch
<1>3. /\ call \in [Calls -> CallStates] /\ stored \in [Ids -> Stored \union {None}]
      /\ batch \in SUBSET PoolOffer
  BY DEF IInv, TypeOK, CallStates
<1> DEFINE rest == [call EXCEPT ![c].offers = @ \ batch]
<1>4. \/ call' = rest
      \/ call' = [rest EXCEPT ![c].pc = "returned", ![c].result = "failed"]
  BY <1>1
<1>5. /\ rest \in [Calls -> CallStates]
      /\ rest[c].pc = "overwrite" /\ rest[c].result = call[c].result
      /\ \A b \in Calls \ {c} : rest[b] = call[b]
  BY <1>2, <1>3 DEF CallStates
<1> HIDE DEF rest
<1>6. /\ call' \in [Calls -> CallStates]
      /\ \A b \in Calls \ {c} : call'[b] = call[b]
      /\ \/ call'[c].pc = "overwrite" /\ call'[c].result = call[c].result
         \/ call'[c].pc = "returned" /\ call'[c].result = "failed"
  BY <1>4, <1>5 DEF CallStates
<1>7. fetched \subseteq fetched' /\ fetched' \subseteq SUBSET PoolOffer
  BY <1>1, <1>3 DEF IInv, TypeOK
<1>8. CallsHoldFetches' BY <1>2, <1>6, <1>7 DEF IInv, CallsHoldFetches, Syncs
<1>9. stored' \in [Ids -> Stored \union {None}] => TypeOK'
  <2>1. ASSUME NEW b \in Calls
        PROVE  /\ call'[b].result = "none" <=> call'[b].pc # "returned"
               /\ call'[b].pc = "overwrite" /\ call'[b].offers = {}
                     => b \in WithPositions \union Jobs
    BY <1>2, <1>6 DEF IInv, TypeOK
  <2>2. QED BY <1>2, <1>6, <1>7, <2>1 DEF IInv, TypeOK, CallStates
<1>10. CASE UNCHANGED stored BY <1>3, <1>7, <1>8, <1>9, <1>10, StoreStays
<1>11. ASSUME batch \in fetched', NEW kept, Kept(batch, kept), ReplaceStore(kept)
       PROVE  IInv'
  <2>1. /\ stored' \in [Ids -> Stored \union {None}] /\ Leverage' = kept
        /\ \A o \in batch : stored'[o.id] # None
    BY <1>3, <1>11, Replaced DEF ReplaceStore
  <2>2. kept \subseteq batch BY <1>11 DEF Kept
  <2>3. StoredIsOneFetch' BY <1>11, <2>1, <2>2 DEF StoredIsOneFetch
  <2>4. QED BY <1>8, <1>9, <2>1, <2>3 DEF IInv
<1>12. \/ UNCHANGED stored
       \/ /\ batch \in fetched'
          /\ \E kept : Kept(batch, kept) /\ ReplaceStore(kept)
  <2>1. CASE UNCHANGED <<stored, fetched>> BY <2>1
  <2>2. CASE /\ fetched' = fetched \union {batch}
             /\ \E kept \in SUBSET batch : Kept(batch, kept) /\ ReplaceStore(kept)
    <3>1. batch \in fetched' BY <2>2
    <3>2. QED BY <2>2, <3>1
  <2>3. QED BY <1>1, <2>1, <2>2
<1>13. QED BY <1>10, <1>11, <1>12

\* A job ends.
LEMMA CompleteKeeps ==
    ASSUME IInv, NEW c \in Calls, CompleteJob(c)
    PROVE  IInv'
<1>1. call[c].pc # "returned" /\ Return(c, "ok") /\ UNCHANGED <<chain, stored, fetched>>
  BY DEF CompleteJob
<1>2. stored \in [Ids -> Stored \union {None}] BY DEF IInv, TypeOK
<1>3. TypeOK' /\ CallsHoldFetches' BY <1>1, <1>2, Returns
<1>4. QED BY <1>1, <1>3, StoreStays

\* The MarginFi service leaves no leverage offer, as a fetch that gave none would.
LEMMA MarginfiKeeps == IInv /\ MarginfiOverwrites => IInv'
<1> SUFFICES ASSUME IInv, MarginfiOverwrites PROVE IInv' OBVIOUS
<1>1. PICK ids \in SUBSET Ids, amount \in [Ids -> BankAmounts] :
         stored' = [i \in Ids |-> IF i \in ids
                                 THEN [source |-> "marginfi", available |-> amount[i]]
                                 ELSE None]
  BY DEF MarginfiOverwrites
<1>2. UNCHANGED <<chain, call, fetched>> BY DEF MarginfiOverwrites
<1>3. \A i \in Ids : [source |-> "marginfi", available |-> amount[i]] \in Stored
  BY PoolSyncAssumption DEF Stored
<1>4. stored' \in [Ids -> Stored \union {None}] BY <1>1, <1>3
<1>5. TypeOK' BY <1>2, <1>4 DEF IInv, TypeOK
<1>6. CallsHoldFetches' BY <1>2 DEF IInv, CallsHoldFetches
<1>7. \A i \in Ids : Source(i)' # "leverage" BY <1>1, PoolSyncAssumption DEF Source
<1>8. Leverage' = {} BY <1>7 DEF Leverage
<1>9. StoredIsOneFetch' BY <1>6, <1>8 DEF StoredIsOneFetch, CallsHoldFetches
<1>10. QED BY <1>5, <1>6, <1>9 DEF IInv

\* Every step keeps the inductive invariant.
LEMMA NextKeeps == IInv /\ [Next]_vars => IInv'
<1> SUFFICES ASSUME IInv, [Next]_vars PROVE IInv' OBVIOUS
<1>1. CASE ChainMoves
  <2>1. TypeOK' BY <1>1 DEF ChainMoves, IInv, TypeOK
  <2>2. CallsHoldFetches' BY <1>1 DEF ChainMoves, IInv, CallsHoldFetches
  <2>3. QED BY <1>1, <2>1, <2>2, StoreStays DEF ChainMoves
<1>2. CASE UNCHANGED vars
  BY <1>2 DEF vars, IInv, TypeOK, CallsHoldFetches, StoredIsOneFetch, Leverage, Source
<1>3. QED
  BY <1>1, <1>2, FetchPoolsKeeps, FetchPositionsKeeps, FailureKeeps, OverwriteKeeps,
     BatchKeeps, CompleteKeeps, MarginfiKeeps DEF Next

-----------------------------------------------------------------------------
\* SyncPoolsToStore and SyncPoolsWithPositions carry one fetch each to the store.
THEOREM Inductive == Spec => []IInv
BY InitIInv, NextKeeps, PTL DEF Spec

\* The leverage offers in the store are those of one fetch or of one batch, whatever
\* calls overlap and whoever else overwrites the store (BulkOverwriteByFilter with the
\* filter of one source, as backfiller.go:536 asks).
THEOREM OneFetch == Spec => []PoolInv
<1>1. IInv => PoolInv BY DEF IInv, PoolInv
<1>2. QED BY <1>1, Inductive, PTL

\* A step of a sync that changes the store is its overwrite, which replaces.
LEMMA SyncsReplace ==
    ASSUME IInv, Next, NEW c \in Syncs, call'[c] # call[c], stored' # stored
    PROVE  \E kept \in SUBSET call[c].offers : Replace(kept)
<1>1. \A b \in Calls :
         ~FetchPools(b) /\ ~FetchPositions(b) /\ ~FetchFails(b) /\ ~OverwriteFails(b)
         /\ ~CompleteJob(b)
  BY DEF FetchPools, FetchPositions, FetchFails, OverwriteFails, CompleteJob
<1>2. ~ChainMoves /\ ~MarginfiOverwrites BY DEF ChainMoves, MarginfiOverwrites
<1>3. PICK b \in Calls : Overwrite(b) \/ OverwriteBatch(b) BY <1>1, <1>2 DEF Next
<1>4. call \in [Calls -> CallStates] BY DEF IInv, TypeOK, CallStates
<1>5. \A d \in Calls \ {b} : call'[d] = call[d]
  BY <1>3, <1>4 DEF Overwrite, OverwriteBatch, Return
<1>6. c = b /\ c \notin Jobs BY <1>5 DEF Syncs
<1>7. Overwrite(c) BY <1>3, <1>6 DEF OverwriteBatch
<1>8. QED BY <1>7 DEF Overwrite

\* A sync changes an offer of another source only if a pool it fetched has its ID.
THEOREM OthersSafe == Spec => OthersKept
<1> DEFINE Safe == \A i \in Ids, c \in Syncs :
                      (/\ stored[i] # None /\ Source(i) # "leverage"
                       /\ call'[c] # call[c] /\ stored'[i] # stored[i])
                      => \E o \in call[c].offers : o.id = i
<1>1. IInv /\ [Next]_vars => [Safe]_vars
  <2> SUFFICES ASSUME IInv, Next, NEW i \in Ids, NEW c \in Syncs,
                      Source(i) # "leverage",
                      call'[c] # call[c], stored'[i] # stored[i]
               PROVE  \E o \in call[c].offers : o.id = i
    OBVIOUS
  <2>1. PICK kept \in SUBSET call[c].offers : Replace(kept) BY SyncsReplace
  <2>2. \E k \in kept : k.id = i BY <2>1 DEF Replace, Overwritten
  <2>3. QED BY <2>1, <2>2
<1>2. QED BY <1>1, Inductive, PTL DEF Spec, OthersKept

-----------------------------------------------------------------------------
(***************************************************************************)
(* The other service that brings a protocol's accounts into the store, for *)
(* any number of starts and of syncs under way: module MarginfiSync.       *)
(***************************************************************************)

\* Unless stop was called during a first sync, the service runs while a start waits for
\* its first sync, has no timer yet, and no other start waits.
OneStartWaits ==
    raced \/ \A s \in Starts : Awaiting(s) =>
                /\ isRunning /\ live = {}
                /\ \A t \in Starts : Awaiting(t) => t = s

SyncIInv == SyncInv /\ OneStartWaits

\* A set of at most one element has at most that cardinality.
LEMMA AtMostOne == ASSUME NEW S, NEW x, S \subseteq {x} PROVE Cardinality(S) <= 1
<1>1. CASE S = {}
  <2>1. Cardinality(S) = 0 BY <1>1, FS_EmptySet
  <2>2. QED BY <2>1
<1>2. CASE S = {x}
  <2>1. Cardinality(S) = 1 BY <1>2, FS_Singleton
  <2>2. QED BY <2>1
<1>3. QED BY <1>1, <1>2

\* Where syncs are, and what the store and the fetches are, apart from the rest.
SyncsTyped ==
    /\ sync \in [Runs -> [pc : {"idle", "fetching", "writing"}, from : 0..MaxFetches,
                          mock : BOOLEAN]]
    /\ fetches \in 0..MaxFetches
    /\ banks \in [from : 0..MaxFetches, others : BOOLEAN]

\* The runs are pairs, of a start or a forced sync and a number.
LEMMA RunsArePairs ==
    /\ \A s \in Starts : <<s, 0>> \in Runs
    /\ \A r \in Runs : /\ r = <<r[1], r[2]>>
                       /\ \/ r[1] \in Starts /\ r[2] \in 0..Overlap
                          \/ r[1] \in Forces /\ r[1] \notin Starts /\ r[2] = 0
<1>1. \A s \in Starts : <<s, 0>> \in Runs
  <2>1. 0 \in 0..Overlap BY MarginfiAssumption DEF MarginfiAssumption
  <2>2. QED BY <2>1 DEF Runs
<1>2. ASSUME NEW r \in Runs
      PROVE  /\ r = <<r[1], r[2]>>
             /\ \/ r[1] \in Starts /\ r[2] \in 0..Overlap
                \/ r[1] \in Forces /\ r[1] \notin Starts /\ r[2] = 0
  BY MarginfiAssumption DEF Runs, MarginfiAssumption
<1>3. QED BY <1>1, <1>2

\* A step that neither begins nor ends the first sync of a start, and leaves the timers.
LEMMA TimersStay ==
    ASSUME SyncIInv, SyncsTyped', UNCHANGED <<isRunning, syncInterval, live, start, raced>>,
           \A s \in Starts : sync'[<<s, 0>>].pc = "idle" <=> sync[<<s, 0>>].pc = "idle"
    PROVE  SyncIInv'
<1> USE DEF SyncIInv, SyncInv
<1>1. SyncTypeOK' BY DEF SyncTypeOK, Awaiting, SyncsTyped
<1>2. OneTimerUnlessRaced' /\ TimerAfterSuccess' /\ OneStartWaits'
  BY DEF OneTimerUnlessRaced, TimerAfterSuccess, OneStartWaits, Awaiting
<1>3. QED BY <1>1, <1>2

\* A sync that begins is one.
LEMMA SyncBegins ==
    ASSUME SyncsTyped, NEW r \in Runs, SyncBanks(r), UNCHANGED <<fetches, banks>>
    PROVE  SyncsTyped'
BY DEF SyncBanks, SyncsTyped

\* A tick, a forced sync, an answer of the chain and the store's other clients do so.
LEMMA OthersStay ==
    ASSUME SyncIInv,
           \/ \E s \in Starts : Tick(s)
           \/ \E r \in Runs : FetchAllBanks(r)
           \/ \E f \in Forces : ForceSync(f)
           \/ OtherClient
    PROVE  SyncIInv'
<1>1. SyncsTyped BY DEF SyncIInv, SyncInv, SyncTypeOK, SyncsTyped
<1>2. ASSUME NEW s \in Starts, Tick(s) PROVE SyncIInv'
  <2>1. PICK n \in 1..Overlap : sync' = [sync EXCEPT ![<<s, n>>].pc = "fetching"]
    BY <1>2 DEF Tick, SyncBanks
  <2>2. UNCHANGED <<isRunning, syncInterval, live, start, fetches, banks, raced>>
    BY <1>2 DEF Tick, timers
  <2>3. n # 0 BY MarginfiAssumption DEF MarginfiAssumption
  <2>4. \A t \in Starts : <<t, 0>> \in Runs /\ <<t, 0>> # <<s, n>>
    BY <2>3, RunsArePairs
  <2>5. \A t \in Starts : sync'[<<t, 0>>] = sync[<<t, 0>>] BY <1>1, <2>1, <2>4 DEF SyncsTyped
  <2>6. SyncsTyped' BY <1>1, <2>1, <2>2 DEF SyncsTyped
  <2>7. QED BY <2>2, <2>5, <2>6, TimersStay
<1>3. ASSUME NEW r \in Runs, FetchAllBanks(r) PROVE SyncIInv'
  <2>1. PICK mock \in BOOLEAN :
           sync' = [sync EXCEPT ![r] = [pc |-> "writing", from |-> fetches', mock |-> mock]]
    BY <1>3 DEF FetchAllBanks
  <2>2. /\ UNCHANGED <<isRunning, syncInterval, live, start, banks, raced>>
        /\ sync[r].pc = "fetching"
    BY <1>3 DEF FetchAllBanks, timers
  <2>3. fetches' \in 0..MaxFetches
    BY <1>1, <1>3, MarginfiAssumption DEF FetchAllBanks, SyncsTyped, MarginfiAssumption
  <2>4. SyncsTyped' BY <1>1, <2>1, <2>2, <2>3 DEF SyncsTyped
  <2>5. \A t \in Runs : sync'[t].pc = "idle" <=> sync[t].pc = "idle"
    BY <1>1, <2>1, <2>2 DEF SyncsTyped
  <2>6. QED BY <2>2, <2>4, <2>5, RunsArePairs, TimersStay
<1>4. ASSUME NEW f \in Forces, ForceSync(f) PROVE SyncIInv'
  <2>1. sync' = [sync EXCEPT ![<<f, 0>>].pc = "fetching"]
    BY <1>4 DEF ForceSync, SyncBanks
  <2>2. UNCHANGED <<isRunning, syncInterval, live, start, fetches, banks, raced>>
    BY <1>4 DEF ForceSync, timers
  <2>3. f \notin Starts BY MarginfiAssumption DEF MarginfiAssumption
  <2>4. \A t \in Starts : sync'[<<t, 0>>] = sync[<<t, 0>>]
    BY <1>1, <2>1, <2>3, RunsArePairs DEF SyncsTyped
  <2>5. SyncsTyped' BY <1>1, <2>1, <2>2 DEF SyncsTyped
  <2>6. QED BY <2>2, <2>4, <2>5, TimersStay
<1>5. CASE OtherClient
  <2>1. UNCHANGED <<isRunning, syncInterval, live, start, sync, fetches, raced>>
        /\ banks' = [banks EXCEPT !.others = TRUE]
    BY <1>5 DEF OtherClient, timers
  <2>2. SyncsTyped' BY <1>1, <2>1 DEF SyncsTyped
  <2>3. QED BY <2>1, <2>2, TimersStay
<1>6. QED BY <1>2, <1>3, <1>4, <1>5

\* A start begins to wait only when the service does not run: then it has no timer, and
\* no other start waits.
LEMMA StartWaits ==
    ASSUME SyncIInv, NEW s \in Starts, Start(s)
    PROVE  SyncIInv'
<1>1. SyncsTyped /\ start \in [Starts -> {"new", "awaiting", "returned", "thrown"}]
  BY DEF SyncIInv, SyncInv, SyncTypeOK, SyncsTyped
<1>2. UNCHANGED <<syncInterval, live, fetches, banks, raced>> /\ start[s] = "new"
  BY DEF Start
<1>3. <<s, 0>> \in Runs BY RunsArePairs
<1> USE DEF SyncIInv, SyncInv, Awaiting
<1>4. s \notin live BY <1>2 DEF TimerAfterSuccess
<1>5. CASE /\ isRunning /\ start' = [start EXCEPT ![s] = "returned"]
           /\ UNCHANGED <<isRunning, sync>>
  <2>1. \A t \in Starts : start'[t] = IF t = s THEN "returned" ELSE start[t] BY <1>1, <1>5
  <2>2. SyncTypeOK' BY <1>1, <1>2, <1>5, <2>1 DEF SyncTypeOK
  <2>3. OneTimerUnlessRaced' /\ TimerAfterSuccess' /\ OneStartWaits'
    BY <1>2, <1>5, <2>1, <2>2
    DEF OneTimerUnlessRaced, TimerAfterSuccess, OneStartWaits, SyncTypeOK
  <2>4. QED BY <2>2, <2>3
<1>6. CASE /\ ~isRunning /\ isRunning' = TRUE /\ start' = [start EXCEPT ![s] = "awaiting"]
           /\ SyncBanks(<<s, 0>>)
  <2>1. \A t \in Starts : start'[t] = IF t = s THEN "awaiting" ELSE start[t] BY <1>1, <1>6
  <2>2. sync' = [sync EXCEPT ![<<s, 0>>].pc = "fetching"] BY <1>6 DEF SyncBanks
  <2>3. SyncsTyped' BY <1>1, <1>2, <1>3, <1>6, SyncBegins
  <2>4. \A t \in Starts : t # s => sync'[<<t, 0>>] = sync[<<t, 0>>]
    BY <1>1, <2>2, RunsArePairs DEF SyncsTyped
  <2>5. sync'[<<s, 0>>].pc = "fetching" BY <1>1, <1>3, <2>2 DEF SyncsTyped
  <2>6. \A t \in Starts : Awaiting(t)' <=> sync'[<<t, 0>>].pc # "idle"
    BY <2>1, <2>4, <2>5 DEF SyncTypeOK
  <2>7. start' \in [Starts -> {"new", "awaiting", "returned", "thrown"}] BY <1>1, <1>6
  <2>8. SyncTypeOK' BY <1>2, <1>6, <2>3, <2>6, <2>7 DEF SyncTypeOK, SyncsTyped
  <2>9. ~raced => live = {} /\ \A t \in Starts : ~Awaiting(t)
    BY <1>6 DEF OneTimerUnlessRaced, OneStartWaits
  <2>10. OneTimerUnlessRaced' BY <1>2, <2>9, <1>6 DEF OneTimerUnlessRaced
  <2>11. TimerAfterSuccess' BY <1>2, <1>4, <2>1 DEF TimerAfterSuccess, SyncTypeOK
  <2>12. OneStartWaits' BY <1>2, <1>6, <2>1, <2>9 DEF OneStartWaits
  <2>13. QED BY <2>8, <2>10, <2>11, <2>12
<1>7. QED BY <1>5, <1>6 DEF Start

\* stop clears the timer there is, and is recorded as a race if a start waits.
LEMMA StopClears == ASSUME SyncIInv, Stop PROVE SyncIInv'
<1> USE DEF SyncIInv, SyncInv, Awaiting
<1>1. /\ isRunning' = FALSE /\ syncInterval' = Null /\ live' = live \ {syncInterval}
      /\ raced' = (raced \/ \E s \in Starts : Awaiting(s))
      /\ UNCHANGED <<start, sync, fetches, banks>>
  BY DEF Stop
<1>2. raced' \in BOOLEAN BY <1>1 DEF SyncTypeOK
<1>3. SyncTypeOK' BY <1>1, <1>2 DEF SyncTypeOK
<1>4. TimerAfterSuccess' BY <1>1 DEF TimerAfterSuccess
<1>5. ~raced' => ~raced /\ \A s \in Starts : ~Awaiting(s) BY <1>1
<1>6. ~raced' => live' = {} BY <1>1, <1>5 DEF OneTimerUnlessRaced
<1>7. OneTimerUnlessRaced'
  <2>1. CASE raced' BY <2>1 DEF OneTimerUnlessRaced
  <2>2. CASE ~raced'
    <3>1. live' \subseteq {syncInterval'} /\ (live' # {} => isRunning') BY <1>6, <2>2
    <3>2. QED BY <3>1, AtMostOne DEF OneTimerUnlessRaced
  <2>3. QED BY <2>1, <2>2
<1>8. OneStartWaits' BY <1>1, <1>5 DEF OneStartWaits
<1>9. QED BY <1>3, <1>4, <1>7, <1>8

\* A first sync that succeeds gives the service its timer, the only one, and one that
\* fails gives it none.
LEMMA SyncEndsKeeps ==
    ASSUME SyncIInv, NEW r \in Runs, NEW ok \in BOOLEAN,
           sync[r].pc = "writing", SyncEnds(r, ok),
           UNCHANGED <<isRunning, fetches, raced>>,
           banks' \in [from : 0..MaxFetches, others : BOOLEAN]
    PROVE  SyncIInv'
<1> DEFINE s == r[1]
<1>1. SyncsTyped /\ start \in [Starts -> {"new", "awaiting", "returned", "thrown"}]
  BY DEF SyncIInv, SyncInv, SyncTypeOK, SyncsTyped
<1>2. sync' = [sync EXCEPT ![r] = Idle] BY DEF SyncEnds
<1>3. Idle \in [pc : {"idle", "fetching", "writing"}, from : 0..MaxFetches, mock : BOOLEAN]
  BY MarginfiAssumption DEF Idle, MarginfiAssumption
<1>4. SyncsTyped' BY <1>1, <1>2, <1>3 DEF SyncsTyped
<1>5. \A q \in Runs : sync'[q].pc = IF q = r THEN "idle" ELSE sync[q].pc
  BY <1>1, <1>2 DEF SyncsTyped, Idle
<1>6. CASE r[1] \in Forces \/ r[2] > 0
  <2>1. UNCHANGED <<start, syncInterval, live>>
    <3>1. ~(r[1] \in Starts /\ r[2] = 0) BY <1>6, MarginfiAssumption DEF MarginfiAssumption
    <3>2. QED BY <3>1 DEF SyncEnds
  <2>2. ASSUME NEW t \in Starts PROVE <<t, 0>> \in Runs /\ <<t, 0>> # r
    <3>1. r[1] # t \/ r[2] # 0 BY <1>6, MarginfiAssumption DEF MarginfiAssumption
    <3>2. <<t, 0>>[1] = t /\ <<t, 0>>[2] = 0 OBVIOUS
    <3>3. QED BY <3>1, <3>2, RunsArePairs
  <2>3. QED BY <1>4, <1>5, <2>1, <2>2, TimersStay
<1>7. CASE s \in Starts /\ r[2] = 0
  <2>1. r = <<s, 0>> BY <1>7, RunsArePairs
  <2>2. ~(r[1] \in Forces \/ r[2] > 0) BY <1>7, MarginfiAssumption DEF MarginfiAssumption
  <2>3. Awaiting(s) BY <1>7, <2>1 DEF SyncIInv, SyncInv, SyncTypeOK
  <2> HIDE DEF s
  <2>4. /\ raced' = raced /\ isRunning' = isRunning
        /\ \A t \in Starts : sync'[<<t, 0>>].pc = IF t = s THEN "idle" ELSE sync[<<t, 0>>].pc
    <3>1. \A t \in Starts : <<t, 0>> \in Runs /\ (<<t, 0>> = r <=> t = s)
      BY <2>1, RunsArePairs
    <3>2. QED BY <1>5, <3>1
  <2>5. PICK end \in {"returned", "thrown"} :
           /\ start' = [start EXCEPT ![s] = end]
           /\ \/ end = "returned" /\ syncInterval' = s /\ live' = live \union {s}
              \/ end = "thrown" /\ UNCHANGED <<syncInterval, live>>
    BY <2>2 DEF SyncEnds, s
  <2>6. /\ \A t \in Starts : start'[t] = IF t = s THEN end ELSE start[t]
        /\ start' \in [Starts -> {"new", "awaiting", "returned", "thrown"}]
    BY <1>1, <2>5
  <2>7. \A t \in Starts : Awaiting(t)' <=> Awaiting(t) /\ t # s
    BY <2>6 DEF Awaiting
  <2>8. SyncTypeOK'
    <3>1. \A t \in Starts : Awaiting(t)' <=> sync'[<<t, 0>>].pc # "idle"
      BY <2>4, <2>7 DEF SyncIInv, SyncInv, SyncTypeOK
    <3>2. live' \subseteq Starts /\ syncInterval' \in live' \union {Null}
      BY <1>7, <2>5 DEF SyncIInv, SyncInv, SyncTypeOK, s
    <3>3. isRunning' \in BOOLEAN /\ raced' \in BOOLEAN
      BY <2>4 DEF SyncIInv, SyncInv, SyncTypeOK
    <3>4. QED BY <1>4, <2>6, <3>1, <3>2, <3>3 DEF SyncTypeOK, SyncsTyped
  <2>9. ~raced => isRunning /\ live = {} /\ \A t \in Starts : Awaiting(t) => t = s
    BY <1>7, <2>3 DEF SyncIInv, OneStartWaits, s
  <2>10. OneTimerUnlessRaced'
    <3>1. CASE raced' BY <3>1 DEF OneTimerUnlessRaced
    <3>2. CASE ~raced'
      <4>1. isRunning /\ live = {} BY <2>4, <2>9, <3>2
      <4>2. live' \subseteq {syncInterval'} /\ isRunning' BY <2>4, <2>5, <4>1
      <4>3. QED BY <4>2, AtMostOne DEF OneTimerUnlessRaced
    <3>3. QED BY <3>1, <3>2
  <2>11. TimerAfterSuccess'
    <3>1. s \notin live /\ \A t \in live : t \in Starts /\ start[t] = "returned"
      BY <2>3 DEF SyncIInv, SyncInv, SyncTypeOK, TimerAfterSuccess, Awaiting
    <3>2. s \in Starts BY <1>7 DEF s
    <3>3. QED BY <2>5, <2>6, <3>1, <3>2 DEF TimerAfterSuccess
  <2>12. OneStartWaits'
    <3>1. ~raced => \A t \in Starts : ~Awaiting(t)' BY <2>7, <2>9
    <3>2. QED BY <2>4, <3>1 DEF OneStartWaits
  <2>13. QED BY <2>8, <2>10, <2>11, <2>12 DEF SyncIInv, SyncInv
<1>8. QED BY <1>6, <1>7, RunsArePairs

\* Whatever becomes of an overwrite, what awaits the sync goes on.
LEMMA AnswersKeep ==
    ASSUME SyncIInv, NEW r \in Runs, Answers(r)
    PROVE  SyncIInv'
<1>1. CASE FetchAllBanks(r) BY <1>1, OthersStay
<1>2. CASE OverwriteStore(r) \/ StoreUnreachable(r)
  <2>1. SyncsTyped BY DEF SyncIInv, SyncInv, SyncTypeOK, SyncsTyped
  <2>2. sync[r].pc = "writing" /\ UNCHANGED <<isRunning, fetches, raced>>
        /\ \E ok \in BOOLEAN : SyncEnds(r, ok)
    BY <1>2 DEF OverwriteStore, StoreUnreachable
  <2>3. banks' = banks \/ banks' = [from |-> sync[r].from, others |-> FALSE]
    BY <1>2 DEF OverwriteStore, StoreUnreachable
  <2>4. banks' \in [from : 0..MaxFetches, others : BOOLEAN]
    <3>1. sync[r].from \in 0..MaxFetches BY <2>1 DEF SyncsTyped
    <3>2. CASE banks' = banks BY <2>1, <3>2 DEF SyncsTyped
    <3>3. CASE banks' = [from |-> sync[r].from, others |-> FALSE] BY <3>1, <3>3
    <3>4. QED BY <2>3, <3>2, <3>3
  <2>5. QED BY <2>2, <2>4, SyncEndsKeeps
<1>3. QED BY <1>1, <1>2 DEF Answers

\* At the start there is no timer and nothing waits.
LEMMA BanksBegin == ASSUME SyncInit PROVE SyncIInv
<1>1. Idle \in [pc : {"idle", "fetching", "writing"}, from : 0..MaxFetches, mock : BOOLEAN]
      /\ Idle.pc = "idle"
  BY MarginfiAssumption DEF Idle, MarginfiAssumption
<1>2. SyncsTyped
  BY <1>1, MarginfiAssumption DEF SyncInit, SyncsTyped, MarginfiAssumption
<1>3. \A s \in Starts : start[s] = "new" /\ sync[<<s, 0>>].pc = "idle"
  BY <1>1, RunsArePairs DEF SyncInit
<1>4. SyncTypeOK BY <1>2, <1>3 DEF SyncInit, SyncTypeOK, Awaiting, SyncsTyped
<1>5. OneTimerUnlessRaced BY AtMostOne DEF SyncInit, OneTimerUnlessRaced
<1>6. QED
  BY <1>3, <1>4, <1>5 DEF SyncInit, SyncIInv, SyncInv, TimerAfterSuccess,
     OneStartWaits, Awaiting

\* However many starts and forced syncs there are, unless stop was called while a start
\* awaited its first sync, at most one timer fires, only while the service runs, and it
\* is the one stop would clear; a start whose first sync failed never sets one.
THEOREM OneTimer == SyncSpec => []SyncInv
<1>1. SyncInit => SyncIInv BY BanksBegin
<1>2. ASSUME SyncIInv, [SyncNext]_(syncVars) PROVE SyncIInv'
  <2>1. CASE UNCHANGED syncVars
    <3>1. SyncsTyped' /\ UNCHANGED <<isRunning, syncInterval, live, start, sync, raced>>
      BY <1>2, <2>1
      DEF syncVars, SyncIInv, SyncInv, SyncTypeOK, SyncsTyped
    <3>2. QED BY <1>2, <3>1, TimersStay
  <2>2. CASE SyncNext
    BY <1>2, <2>2, StartWaits, OthersStay, AnswersKeep, StopClears DEF SyncNext
  <2>3. QED BY <1>2, <2>1, <2>2
<1>3. SyncIInv => SyncInv BY DEF SyncIInv
<1>4. QED BY <1>1, <1>2, <1>3, PTL DEF SyncSpec
=============================================================================
