------------------------------ MODULE PoolSync ------------------------------
(***************************************************************************)
(* The Backfiller's synchronisation of the leverage program's pools with   *)
(* the store: SyncPoolsToStore and SyncPoolsWithPositions, several calls   *)
(* of them at once, over a chain that changes and a store that the chain   *)
(* jobs of the same Backfiller and the MarginFi service overwrite too.     *)
(*                                                                         *)
(* A job is one call here, from its fetch to its last batch: Backfiller    *)
(* has its queue, its workers and its result.  The ETL, whose only source  *)
(* of events tells of no pool, is left out.                                *)
(*                                                                         *)
(* The chain client is an interface; SolanaClient, its only implementation *)
(* here, takes no notice of the filters it is given, a Solana node does.   *)
(* A fetch connects it if it is not connected, which may fail.             *)
(***************************************************************************)
EXTENDS ProgramAccounts, FiniteSets

CONSTANTS
    Calls,          \* the calls
    WithPositions,  \* those of SyncPoolsWithPositions
    Jobs,           \* those of processChainBackfill; the rest, of SyncPoolsToStore
    Addresses,      \* of accounts of the program
    Accounts,       \* what an account can be: [kind, size, wallet, max, exposure]
    Word,           \* 2^64, the number of values of a uint64
    FullLTV,        \* what Validate takes for a loan-to-value of 1, in the unit of
                    \* ToMarginOffer's 80 and 90: it is 1, and 100 would be meant
    HonoursSize,    \* does the chain client filter by dataSize?
    Ids,            \* offer IDs; a node wallet's key is one
    BankAmounts,    \* what the banks of MarginFi can have available
    None

\* What the store can hold for an ID, by its liquiditySource.
Stored == [source: {"leverage", "marginfi"}, available: 0..(Word - 1)]

ASSUME PoolSyncAssumption ==
    /\ WithPositions \subseteq Calls /\ Jobs \subseteq Calls \ WithPositions
    /\ Word \in Nat \ {0} /\ FullLTV \in Nat
    /\ HonoursSize \in BOOLEAN
    /\ Accounts \subseteq [kind: Kinds, size: Nat, wallet: Ids,
                           max: 0..(Word - 1), exposure: 0..(Word - 1)]
    /\ BankAmounts \subseteq 0..(Word - 1)
    /\ None \notin Accounts \union Stored \union {"leverage"}

VARIABLES
    chain,        \* the account at each address, or None
    call,         \* each call: where it is, the offers it has yet to store
    stored,       \* the store: for an ID the offer's source and amount, or None
    fetched       \* history: what the syncs made of the pools they fetched, and
                  \* the batches the jobs stored

vars == <<chain, call, stored, fetched>>

Syncs == Calls \ Jobs
PoolOffer == [id: Ids, available: 0..(Word - 1)]

-----------------------------------------------------------------------------
\* GetProgramAccounts: addresses of the accounts it answers with.
GetProgramAccounts(kind) ==
    {a \in Addresses : /\ chain[a] # None
                       /\ HonoursSize => chain[a].size = RequestedSize[kind]}

\* The accounts that can be decoded; FetchAll... leaves the others out.
FetchAll(kind) ==
    {chain[a] : a \in {b \in GetProgramAccounts(kind) : Decodes(kind, chain[b])}}

\* ToMarginOffer: the difference is one of unsigned integers.
ToMarginOffer(pool) ==
    [id |-> pool.wallet, available |-> (Word + pool.max - pool.exposure) % Word]
MaxOpenLTV == 80
LiquidationLTV == 90

\* Validate on an offer made of a pool.
Valid == MaxOpenLTV <= FullLTV /\ LiquidationLTV <= FullLTV /\ LiquidationLTV > MaxOpenLTV

Source(i) == IF stored[i] = None THEN None ELSE stored[i].source
Leverage == {[id |-> i, available |-> stored[i].available] :
                i \in {j \in Ids : Source(j) = "leverage"}}

-----------------------------------------------------------------------------
\* Types; a call of SyncPoolsToStore past its fetch holds offers.
TypeOK ==
    /\ chain \in [Addresses -> Accounts \union {None}]
    /\ call \in [Calls -> [pc: {"pools", "positions", "overwrite", "returned"},
                           offers: SUBSET PoolOffer, result: {"none", "ok", "failed"}]]
    /\ stored \in [Ids -> Stored \union {None}]
    /\ fetched \subseteq SUBSET PoolOffer
    /\ \A c \in Calls : /\ call[c].result = "none" <=> call[c].pc # "returned"
                        /\ call[c].pc = "overwrite" /\ call[c].offers = {}
                              => c \in WithPositions \union Jobs

Init ==
    /\ chain \in [Addresses -> Accounts \union {None}]
    /\ call = [c \in Calls |-> [pc |-> "pools", offers |-> {}, result |-> "none"]]
    /\ stored = [i \in Ids |-> None]
    /\ fetched = {{}}

Return(c, r) == call' = [call EXCEPT ![c].pc = "returned", ![c].result = r]

\* The client cannot connect, or the answer is an error.
FetchFails(c) ==
    /\ call[c].pc \in {"pools", "positions"}
    /\ Return(c, "failed")
    /\ UNCHANGED <<chain, stored, fetched>>

\* FetchAllPools, MapPoolsToMarginOffers; SyncPoolsToStore is done if they give
\* nothing, the others go on.
FetchPools(c) ==
    /\ call[c].pc = "pools"
    /\ LET offers == {ToMarginOffer(p) : p \in FetchAll("pool")}
       IN  /\ fetched' = IF c \in Jobs THEN fetched ELSE fetched \union {offers}
           /\ \/ /\ c \in WithPositions
                 /\ call' = [call EXCEPT ![c].pc = "positions", ![c].offers = offers]
              \/ /\ c \in Jobs \/ (c \notin WithPositions /\ offers # {})
                 /\ call' = [call EXCEPT ![c].pc = "overwrite", ![c].offers = offers]
              \/ c \in Syncs \ WithPositions /\ offers = {} /\ Return(c, "ok")
    /\ UNCHANGED <<chain, stored>>

\* FetchAllPositions.  What it gives is logged.
FetchPositions(c) ==
    /\ call[c].pc = "positions"
    /\ call' = [call EXCEPT ![c].pc = "overwrite"]
    /\ UNCHANGED <<chain, stored, fetched>>

\* Of the offers with one ID the store keeps the one that comes last.
Kept(offers, kept) ==
    /\ kept \subseteq offers
    /\ \A o \in offers : \E k \in kept : k.id = o.id
    /\ \A k, l \in kept : k.id = l.id => k = l

\* The store after an overwrite: of the IDs in gone only those of the offers stay.
Overwritten(kept, gone) ==
    [i \in Ids |->
        CASE \E k \in kept : k.id = i ->
               [source |-> "leverage",
                available |-> (CHOOSE k \in kept : k.id = i).available]
          [] i \in gone /\ \A k \in kept : k.id # i -> None
          [] OTHER -> stored[i]]

\* A mutant of Replace: the offers of the batch are added to those there are.
Add(kept) == stored' = Overwritten(kept, {})

\* BulkOverwrite: BulkOverwriteByFilter without a filter.
ReplaceStore(kept) == stored' = Overwritten(kept, Ids)

\* BulkOverwriteByFilter with the filter LiquiditySource = "leverage".
Replace(kept) == stored' = Overwritten(kept, {i \in Ids : Source(i) = "leverage"})

\* The overwrite, which the store refuses as a whole if an offer is invalid; the
\* answer to one it did may come too late.
Overwrite(c) ==
    /\ call[c].pc = "overwrite" /\ c \in Syncs
    /\ \/ /\ call[c].offers # {} /\ ~Valid
          /\ Return(c, "failed") /\ UNCHANGED stored
       \/ /\ call[c].offers = {} \/ Valid
          /\ \E kept \in SUBSET call[c].offers : Kept(call[c].offers, kept) /\ Replace(kept)
          /\ \E r \in {"ok", "failed"} : Return(c, r)
    /\ UNCHANGED <<chain, fetched>>

\* The store cannot be reached.
OverwriteFails(c) ==
    /\ call[c].pc = "overwrite" /\ c \in Syncs
    /\ Return(c, "failed")
    /\ UNCHANGED <<chain, stored, fetched>>

\* A job's next batch: it goes on if the store refuses it or cannot be reached, and
\* ends after one that was stored if main's context was cancelled.
OverwriteBatch(c) ==
    /\ call[c].pc = "overwrite" /\ c \in Jobs
    /\ \E batch \in (SUBSET call[c].offers) \ {{}} :
          LET rest == [call EXCEPT ![c].offers = @ \ batch]
          IN  \/ call' = rest /\ UNCHANGED <<stored, fetched>>
              \/ /\ Valid /\ fetched' = fetched \union {batch}
                 /\ \E kept \in SUBSET batch : Kept(batch, kept) /\ ReplaceStore(kept)
                 /\ call' \in {rest, [rest EXCEPT ![c].pc = "returned",
                                                 ![c].result = "failed"]}
    /\ UNCHANGED chain

\* Its last batch was the last.
CompleteJob(c) ==
    /\ call[c].pc = "overwrite" /\ c \in Jobs /\ call[c].offers = {}
    /\ Return(c, "ok")
    /\ UNCHANGED <<chain, stored, fetched>>

\* Accounts appear, change and are closed.
ChainMoves ==
    /\ \E a \in Addresses, x \in Accounts \union {None} : chain' = [chain EXCEPT ![a] = x]
    /\ UNCHANGED <<call, stored, fetched>>

\* The MarginFi service overwrites the store with the banks it fetched: nothing else
\* stays in it.
MarginfiOverwrites ==
    /\ \E banks \in SUBSET Ids, amount \in [Ids -> BankAmounts] :
          stored' = [i \in Ids |-> IF i \in banks
                                  THEN [source |-> "marginfi", available |-> amount[i]]
                                  ELSE None]
    /\ UNCHANGED <<chain, call, fetched>>

Next ==
    \/ \E c \in Calls : \/ FetchPools(c) \/ FetchPositions(c) \/ FetchFails(c)
                        \/ Overwrite(c) \/ OverwriteFails(c)
                        \/ OverwriteBatch(c) \/ CompleteJob(c)
    \/ ChainMoves \/ MarginfiOverwrites

Spec == Init /\ [][Next]_vars

-----------------------------------------------------------------------------
\* The leverage offers in the store are those of one fetch of a sync, or of one batch
\* of a job, whatever calls overlap, whatever they met and whoever else overwrites the
\* store: never pools of two fetches beside each other, or a part of one, except where
\* a bank has a pool's ID (backfiller.go:536-540, workers.go:128,
\* syncMarginFiBanks.ts:287).
StoredIsOneFetch ==
    \E offers \in fetched :
       /\ Leverage \subseteq offers
       /\ \A o \in offers : stored[o.id] # None

\* The state has its type, and the leverage offers are consistent.
PoolInv == TypeOK /\ StoredIsOneFetch

\* A sync leaves an offer of another source alone unless a pool it fetched has
\* that offer's ID (backfiller.go:536, :606); a job does not (workers.go:128).
OthersKept ==
    [][\A i \in Ids, c \in Syncs :
          (/\ stored[i] # None /\ Source(i) # "leverage"
           /\ call'[c] # call[c] /\ stored'[i] # stored[i])
          => \E o \in call[c].offers : o.id = i]_vars

\* A call of SyncPoolsToStore that fetched pools while the store can be reached
\* stores them: backfiller.go:520 "SyncPoolsToStore fetches all pools, converts them
\* to margin offers, and stores them".
FetchedIsStored ==
    [][\A c \in Syncs \ WithPositions : Overwrite(c) => Leverage' # {}]_vars
=============================================================================
