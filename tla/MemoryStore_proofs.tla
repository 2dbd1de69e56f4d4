------------------------ MODULE MemoryStore_proofs ------------------------
(***************************************************************************)
(* Theorems about MemoryStore, for every set of offers, batches and        *)
(* filters, every capacity of the event channel and every MaxClock.        *)
(*                                                                         *)
(* The inductive invariant is the conjunction of the type invariant, what  *)
(* the bulk loops rely on, the two index invariants and the validity of    *)
(* what is stored.  Every store of an offer goes through one lemma,        *)
(* StoreKeeps: an index from which the ID's old entries were cleared, plus *)
(* the new offer's entries, is complete and exact.                         *)
(*                                                                         *)
(* The last part proves that the store implements AtomicStore: LoopOK says *)
(* what a bulk call has done of its batch after any number of iterations,  *)
(* which is all of it when it returns, when its readers first see it.      *)
(***************************************************************************)
EXTENDS MemoryStore, TLAPS

IInv == TypeOK /\ FrameOK /\ IndexComplete /\ IndexExact /\ OnlyValidStored

Index == [Keys -> [Ids -> Nat]]

\* idx is the index without the entries of one ID: it agrees with the index on
\* the other IDs, and has none for this one unless the ID is dirty.
Cleared(idx, id) ==
    /\ idx \in Index
    /\ \A k \in Keys : \A j \in Ids : j # id => idx[k][j] = index[k][j]
    /\ id \notin dirty => \A k \in Keys : idx[k][id] = 0

-----------------------------------------------------------------------------
\* Stamping an offer yields an offer, with the ID and the validity it had.
LEMMA StampedFacts ==
    ASSUME NEW o \in Offer, NEW c \in Nat, NEW t \in Nat
    PROVE  /\ Stamped(o, c, t) \in Offer
           /\ Stamped(o, c, t).id = o.id
           /\ Stamped(o, c, t).valid = o.valid
BY DEF Stamped, Offer

\* The creation time CreatedOr gives is a time.
LEMMA CreatedOrNat == ASSUME NEW o \in Offer, NEW t \in Nat
                      PROVE  CreatedOr(o, t) \in Nat
BY DEF CreatedOr, Offer

\* What the index operations do to the entries of each ID.
LEMMA AddFacts ==
    ASSUME NEW idx \in Index, NEW o \in Offer
    PROVE  /\ AddToIndexes(idx, o) \in Index
           /\ \A k \in Keys : \A j \in Ids :
                 AddToIndexes(idx, o)[k][j] =
                    IF j = o.id /\ k \in KeysOf(o) THEN idx[k][j] + 1 ELSE idx[k][j]
<1>1. o.id \in Ids BY DEF Offer
<1>2. QED BY <1>1 DEF AddToIndexes, Index

\* RemoveFromIndexes takes one occurrence out of each list of the offer's keys.
LEMMA RemoveFacts ==
    ASSUME NEW idx \in Index, NEW o \in Offer
    PROVE  /\ RemoveFromIndexes(idx, o) \in Index
           /\ \A k \in Keys : \A j \in Ids :
                 RemoveFromIndexes(idx, o)[k][j] =
                    IF j = o.id /\ k \in KeysOf(o) /\ idx[k][j] > 0
                    THEN idx[k][j] - 1 ELSE idx[k][j]
<1>1. o.id \in Ids BY DEF Offer
<1>2. RemoveFromIndexes(idx, o) \in Index BY <1>1 DEF RemoveFromIndexes, Index
<1>3. ASSUME NEW k \in Keys, NEW j \in Ids
      PROVE  RemoveFromIndexes(idx, o)[k][j] =
                IF j = o.id /\ k \in KeysOf(o) /\ idx[k][j] > 0
                THEN idx[k][j] - 1 ELSE idx[k][j]
  BY <1>1, <1>3 DEF RemoveFromIndexes, Index
<1>4. QED BY <1>2, <1>3

\* RemoveAllFromIndexes does so for every ID of a set at once.
LEMMA RemoveAllFacts ==
    ASSUME NEW idx \in Index, NEW t, NEW ids
    PROVE  /\ RemoveAllFromIndexes(idx, t, ids) \in Index
           /\ \A k \in Keys : \A j \in Ids :
                 RemoveAllFromIndexes(idx, t, ids)[k][j] =
                    IF j \in ids /\ k \in KeysOf(t[j]) /\ idx[k][j] > 0
                    THEN idx[k][j] - 1 ELSE idx[k][j]
<1>1. \A k \in Keys : \A j \in Ids : idx[k][j] \in Nat BY DEF Index
<1>2. RemoveAllFromIndexes(idx, t, ids) \in Index
  BY <1>1 DEF RemoveAllFromIndexes, Index
<1>3. QED BY <1>2 DEF RemoveAllFromIndexes

\* An offer's index keys are keys of the three indexes.
LEMMA KeysOfOffer == ASSUME NEW o \in Offer PROVE KeysOf(o) \subseteq Keys
BY DEF KeysOf, Keys, Offer

\* What a table holds under an ID is an offer with that ID.
LEMMA TableEntry ==
    ASSUME NEW t \in Table, NEW id \in Ids, t[id] # None
    PROVE  t[id] \in Offer /\ t[id].id = id
BY DEF Table

\* Storing an offer under its own ID gives a table that holds it there.
LEMMA TableStore ==
    ASSUME NEW t \in Table, NEW o \in Offer
    PROVE  /\ [t EXCEPT ![o.id] = o] \in Table
           /\ \A id \in Ids : [t EXCEPT ![o.id] = o][id] = IF id = o.id THEN o ELSE t[id]
<1>1. o.id \in Ids BY DEF Offer
<1>2. QED BY <1>1 DEF Table

\* Dropping an entry of a table gives a table.
LEMMA TableDelete ==
    ASSUME NEW t \in Table, NEW id \in Ids
    PROVE  [t EXCEPT ![id] = None] \in Table
BY DEF Table

\* The elements of a batch, and the IDs it names.
LEMMA BatchElement ==
    ASSUME NEW b \in Batches, NEW i \in DOMAIN b
    PROVE  b[i] \in Offer /\ b[i].id \in Ids /\ b[i].id \in BatchIds(b)
<1>1. b[i] \in Offer BY CallAssumption
<1>2. QED BY <1>1 DEF Offer, BatchIds

\* The IDs a batch names, and those it repeats, are IDs.
LEMMA BatchIdsAreIds ==
    ASSUME NEW b \in Batches
    PROVE  BatchIds(b) \subseteq Ids /\ Repeated(b) \subseteq Ids
BY BatchElement DEF BatchIds, Repeated

-----------------------------------------------------------------------------
\* Taking out an offer's entries clears its ID.
LEMMA RemoveClears ==
    ASSUME TypeOK, IndexExact, NEW id \in Ids, Has(id)
    PROVE  Cleared(RemoveFromIndexes(index, offers[id]), id)
<1> DEFINE o == offers[id]
           idx == RemoveFromIndexes(index, o)
<1>1. o \in Offer /\ o.id = id BY TableEntry DEF TypeOK, Has
<1>2. index \in Index BY DEF TypeOK, Index
<1> HIDE DEF o
<1>3. /\ idx \in Index
      /\ \A k \in Keys : \A j \in Ids :
            idx[k][j] = IF j = o.id /\ k \in KeysOf(o) /\ index[k][j] > 0
                        THEN index[k][j] - 1 ELSE index[k][j]
  BY <1>1, <1>2, RemoveFacts
<1> HIDE DEF idx
<1>4. ASSUME NEW k \in Keys, id \notin dirty PROVE idx[k][id] = 0
  <2>1. index[k][id] = IF k \in KeysOf(o) THEN 1 ELSE 0
    BY <1>4 DEF IndexExact, Has, o
  <2>2. QED BY <1>1, <1>3, <2>1
<1>5. Cleared(idx, id) BY <1>1, <1>3, <1>4 DEF Cleared
<1>6. QED BY <1>5 DEF idx, o

\* For an absent ID there is nothing to clear.
LEMMA AbsentCleared ==
    ASSUME TypeOK, IndexExact, NEW id \in Ids, id \notin dirty => ~Has(id)
    PROVE  Cleared(index, id)
<1>1. index \in Index BY DEF TypeOK, Index
<1>2. QED BY <1>1 DEF Cleared, IndexExact, Has

\* Storing an offer beside a cleared index keeps the invariants.
LEMMA StoreKeeps ==
    ASSUME TypeOK, IndexComplete, IndexExact, OnlyValidStored,
           NEW o \in Offer, o.valid, NEW idx, Cleared(idx, o.id),
           offers' = [offers EXCEPT ![o.id] = o],
           index' = AddToIndexes(idx, o),
           dirty' = dirty
    PROVE  /\ offers' \in Table /\ index' \in Index
           /\ IndexComplete' /\ IndexExact' /\ OnlyValidStored'
<1>1. o.id \in Ids /\ offers \in Table /\ index \in Index
  BY DEF Offer, TypeOK, Index
<1>2. /\ offers' \in Table
      /\ \A id \in Ids : offers'[id] = IF id = o.id THEN o ELSE offers[id]
  BY <1>1, TableStore
<1>3. /\ index' \in Index
      /\ \A k \in Keys : \A j \in Ids :
            index'[k][j] = IF j = o.id /\ k \in KeysOf(o) THEN idx[k][j] + 1 ELSE idx[k][j]
  BY AddFacts DEF Cleared
<1>4. \A k \in Keys : \A j \in Ids : idx[k][j] \in Nat BY DEF Cleared, Index
<1>5. o # None BY NoneAssumption
<1>6. ASSUME NEW id \in Ids, offers'[id] # None, NEW k \in KeysOf(offers'[id])
      PROVE  index'[k][id] > 0
  <2>1. k \in Keys BY <1>2, <1>6, TableEntry, KeysOfOffer
  <2>2. CASE id = o.id BY <1>2, <1>3, <1>4, <1>6, <2>1, <2>2
  <2>3. CASE id # o.id
    <3>1. offers'[id] = offers[id] BY <1>2, <2>3
    <3>2. index[k][id] > 0 BY <1>6, <3>1 DEF IndexComplete
    <3>3. QED BY <1>3, <2>1, <2>3, <3>2 DEF Cleared
  <2>4. QED BY <2>2, <2>3
<1>7. ASSUME NEW id \in Ids \ dirty, NEW k \in Keys
      PROVE  index'[k][id] = IF offers'[id] # None /\ k \in KeysOf(offers'[id]) THEN 1 ELSE 0
  <2>1. CASE id = o.id
    <3>1. idx[k][id] = 0 BY <1>7, <2>1 DEF Cleared
    <3>2. QED BY <1>2, <1>3, <1>5, <2>1, <3>1
  <2>2. CASE id # o.id
    <3>1. index'[k][id] = index[k][id] BY <1>3, <2>2 DEF Cleared
    <3>2. offers'[id] = offers[id] BY <1>2, <2>2
    <3>3. QED BY <1>7, <3>1, <3>2 DEF IndexExact
  <2>3. QED BY <2>1, <2>2
<1>8. IndexComplete' BY <1>6 DEF IndexComplete
<1>9. IndexExact' BY <1>7 DEF IndexExact
<1>10. OnlyValidStored' BY <1>2 DEF OnlyValidStored
<1>11. QED BY <1>2, <1>3, <1>8, <1>9, <1>10

\* Deleting an ID together with its entries keeps the invariants; so does
\* deleting it again, when there is nothing left to delete.
LEMMA DeleteKeeps ==
    ASSUME TypeOK, IndexComplete, IndexExact, OnlyValidStored,
           NEW id \in Ids, NEW o \in Offer, o.id = id, offers[id] \in {None, o},
           offers' = [offers EXCEPT ![id] = None],
           index' = RemoveFromIndexes(index, o),
           dirty' = dirty
    PROVE  /\ offers' \in Table /\ index' \in Index
           /\ IndexComplete' /\ IndexExact' /\ OnlyValidStored'
<1>1. offers \in Table /\ index \in Index BY DEF TypeOK, Index
<1>2. /\ offers' \in Table
      /\ \A j \in Ids : offers'[j] = IF j = id THEN None ELSE offers[j]
  BY <1>1, TableDelete DEF Table
<1>3. /\ index' \in Index
      /\ \A k \in Keys : \A j \in Ids :
            index'[k][j] = IF j = id /\ k \in KeysOf(o) /\ index[k][j] > 0
                           THEN index[k][j] - 1 ELSE index[k][j]
  BY <1>1, RemoveFacts
<1>4. ASSUME NEW j \in Ids, offers'[j] # None, NEW k \in KeysOf(offers'[j])
      PROVE  index'[k][j] > 0
  <2>1. j # id /\ offers'[j] = offers[j] BY <1>2, <1>4
  <2>2. k \in Keys BY <1>2, <1>4, TableEntry, KeysOfOffer
  <2>3. index[k][j] > 0 BY <1>4, <2>1 DEF IndexComplete
  <2>4. QED BY <1>3, <2>1, <2>2, <2>3
<1>5. ASSUME NEW j \in Ids \ dirty, NEW k \in Keys
      PROVE  index'[k][j] = IF offers'[j] # None /\ k \in KeysOf(offers'[j]) THEN 1 ELSE 0
  <2>1. index[k][j] = IF offers[j] # None /\ k \in KeysOf(offers[j]) THEN 1 ELSE 0
    BY <1>5 DEF IndexExact
  <2>2. CASE j # id BY <1>2, <1>3, <2>1, <2>2
  <2>3. CASE j = id
    <3>1. index[k][j] > 0 => k \in KeysOf(o) /\ index[k][j] = 1 BY <2>1, <2>3
    <3>2. QED BY <1>2, <1>3, <2>1, <2>3, <3>1
  <2>4. QED BY <2>2, <2>3
<1>6. IndexComplete' BY <1>4 DEF IndexComplete
<1>7. IndexExact' BY <1>5 DEF IndexExact
<1>8. OnlyValidStored' BY <1>2 DEF OnlyValidStored
<1>9. QED BY <1>2, <1>3, <1>6, <1>7, <1>8

\* What an upsert stores, and that it clears the ID first.
LEMMA UpsertFacts ==
    ASSUME TypeOK, IndexExact, NEW o \in Offer, NEW now \in Nat
    PROVE  /\ Upserted(o, now) \in Offer
           /\ Upserted(o, now).id = o.id
           /\ Upserted(o, now).valid = o.valid
           /\ Cleared(IndexWithout(o.id), o.id)
<1>1. o.id \in Ids BY DEF Offer
<1>2. CASE Has(o.id)
  <2>1. offers[o.id].created \in Nat BY <1>1, <1>2, TableEntry DEF TypeOK, Has, Offer
  <2>2. Upserted(o, now) = Stamped(o, offers[o.id].created, now) BY <1>2 DEF Upserted
  <2>3. Cleared(IndexWithout(o.id), o.id) BY <1>1, <1>2, RemoveClears DEF IndexWithout
  <2>4. LET s == Stamped(o, offers[o.id].created, now)
        IN  s \in Offer /\ s.id = o.id /\ s.valid = o.valid
    BY <2>1, StampedFacts
  <2>5. QED BY <2>2, <2>3, <2>4
<1>3. CASE ~Has(o.id)
  <2>1. Upserted(o, now) = Stamped(o, CreatedOr(o, now), now) BY <1>3 DEF Upserted
  <2>2. CreatedOr(o, now) \in Nat BY CreatedOrNat
  <2>3. Cleared(IndexWithout(o.id), o.id) BY <1>1, <1>3, AbsentCleared DEF IndexWithout
  <2>4. LET s == Stamped(o, CreatedOr(o, now), now)
        IN  s \in Offer /\ s.id = o.id /\ s.valid = o.valid
    BY <2>2, StampedFacts
  <2>5. QED BY <2>1, <2>3, <2>4
<1>4. QED BY <1>2, <1>3

-----------------------------------------------------------------------------
\* The inductive invariant holds of the store NewMemoryStore makes.
LEMMA InitIInv == Init => IInv
<1> SUFFICES ASSUME Init PROVE IInv OBVIOUS
<1>1. offers \in Table /\ \A id \in Ids : offers[id] = None
  BY DEF Init, Table, EmptyTable
<1>2. index \in Index /\ \A k \in Keys : \A id \in Ids : index[k][id] = 0
  BY DEF Init, EmptyIndex, Index
<1>3. offersMade \in BOOLEAN /\ panicked \in BOOLEAN BY DEF Init
<1>4. indexesMade \in BOOLEAN BY BoundAssumption DEF Init
<1>5. events \in Seq(Event) BY DEF Init
<1>6. call = None BY DEF Init
<1>7. reply \in Replies /\ clock \in Nat /\ dirty \subseteq Ids BY DEF Init, Replies
<1>8. TypeOK BY <1>1, <1>2, <1>3, <1>4, <1>5, <1>6, <1>7 DEF TypeOK, Index
<1>9. FrameOK BY <1>6 DEF FrameOK
<1>10. IndexComplete BY <1>1 DEF IndexComplete
<1>11. IndexExact BY <1>1, <1>2 DEF IndexExact
<1>12. OnlyValidStored BY <1>1 DEF OnlyValidStored
<1>13. QED BY <1>8, <1>9, <1>10, <1>11, <1>12 DEF IInv

\* Steps that leave the offers, the indexes, the frame and dirty alone.
LEMMA QuietKeeps ==
    ASSUME IInv, UNCHANGED <<offers, index, call, dirty>>
    PROVE  FrameOK' /\ IndexComplete' /\ IndexExact' /\ OnlyValidStored'
<1>1. FrameOK' BY DEF IInv, FrameOK, ToCome
<1>2. IndexComplete' BY DEF IInv, IndexComplete
<1>3. IndexExact' BY DEF IInv, IndexExact
<1>4. OnlyValidStored' BY DEF IInv, OnlyValidStored
<1>5. QED BY <1>1, <1>2, <1>3, <1>4

\* A call that is refused, or has nothing to do, keeps the invariant.
LEMMA ReturnKeeps == ASSUME IInv, NEW r \in Replies, Return(r) PROVE IInv'
<1>1. TypeOK' BY DEF IInv, TypeOK, Return
<1>2. UNCHANGED <<offers, index, call, dirty>> BY DEF Return
<1>3. QED BY <1>1, <1>2, QuietKeeps DEF IInv

\* So does the write to a nil map that ends the process.
LEMMA PanicKeeps == ASSUME IInv, Panic PROVE IInv'
<1>1. panicked' \in BOOLEAN BY DEF Panic
<1>2. UNCHANGED <<offers, index, offersMade, indexesMade, events, call, reply,
                  clock, dirty>>
  BY DEF Panic
<1>3. TypeOK' BY <1>1, <1>2 DEF IInv, TypeOK
<1>4. QED BY <1>2, <1>3, QuietKeeps DEF IInv

\* NotifyChange appends at most one event.
LEMMA NotifyTyped ==
    ASSUME TypeOK, NEW t \in ChangeTypes, NEW id \in Ids,
           Notify([type |-> t, id |-> id])
    PROVE  events' \in Seq(Event)
<1>1. [type |-> t, id |-> id] \in Event BY DEF Event
<1>2. events \in Seq(Event) BY DEF TypeOK
<1>3. QED BY <1>1, <1>2 DEF Notify

\* A single-offer call that stores.
LEMMA StoreOneKeeps ==
    ASSUME IInv, Unlocked, NEW o \in Offer, o.valid, NEW idx, Cleared(idx, o.id),
           StoreOne(o, idx), events' \in Seq(Event)
    PROVE  IInv'
<1>1. /\ offers' = [offers EXCEPT ![o.id] = o]
      /\ index' = AddToIndexes(idx, o)
      /\ dirty' = dirty
  BY DEF StoreOne
<1>2. /\ offers' \in Table /\ index' \in Index
      /\ IndexComplete' /\ IndexExact' /\ OnlyValidStored'
  BY <1>1, StoreKeeps DEF IInv
<1>3. clock' \in Nat /\ reply' \in Replies BY DEF StoreOne, IInv, TypeOK, Replies
<1>4. UNCHANGED <<offersMade, indexesMade, call, panicked, dirty>> BY DEF StoreOne
<1>5. TypeOK' BY <1>2, <1>3, <1>4 DEF IInv, TypeOK, Index
<1>6. FrameOK' BY <1>4 DEF FrameOK, Unlocked
<1>7. QED BY <1>2, <1>5, <1>6 DEF IInv

-----------------------------------------------------------------------------
\* The single-offer calls.

\* Create keeps the invariant.
LEMMA CreateKeeps == ASSUME IInv, NEW o \in Inputs, Create(o) PROVE IInv'
<1>1. o \in Offer /\ o.id \in Ids BY CallAssumption DEF Offer
<1>2. CASE (\E r \in Replies : Return(r)) \/ Panic BY <1>2, ReturnKeeps, PanicKeeps
<1>3. CASE /\ Unlocked /\ o.valid /\ ~Has(o.id)
           /\ StoreOne(Stamped(o, clock, clock), index)
           /\ Notify([type |-> "created", id |-> o.id])
  <2> DEFINE new == Stamped(o, clock, clock)
  <2>1. clock \in Nat BY DEF IInv, TypeOK
  <2>2. new \in Offer /\ new.id = o.id /\ new.valid
    BY <1>1, <1>3, <2>1, StampedFacts
  <2>3. events' \in Seq(Event) BY <1>1, <1>3, NotifyTyped DEF ChangeTypes, IInv
  <2>4. Cleared(index, o.id) BY <1>1, <1>3, AbsentCleared DEF IInv
  <2> HIDE DEF new
  <2>5. Unlocked /\ StoreOne(new, index) BY <1>3 DEF new
  <2>6. QED BY <2>2, <2>3, <2>4, <2>5, StoreOneKeeps
<1>4. QED BY <1>2, <1>3 DEF Create, Replies

\* Update keeps the invariant.
LEMMA UpdateKeeps == ASSUME IInv, NEW o \in Inputs, Update(o) PROVE IInv'
<1>1. o \in Offer /\ o.id \in Ids /\ o.created \in Nat BY CallAssumption DEF Offer
<1>2. CASE (\E r \in Replies : Return(r)) BY <1>2, ReturnKeeps
<1>3. CASE /\ Unlocked /\ o.valid /\ Has(o.id)
           /\ StoreOne(Stamped(o, o.created, clock),
                       RemoveFromIndexes(index, offers[o.id]))
           /\ Notify([type |-> "updated", id |-> o.id])
  <2> DEFINE new == Stamped(o, o.created, clock)
             idx == RemoveFromIndexes(index, offers[o.id])
  <2>1. clock \in Nat BY DEF IInv, TypeOK
  <2>2. new \in Offer /\ new.id = o.id /\ new.valid
    BY <1>1, <1>3, <2>1, StampedFacts
  <2>3. events' \in Seq(Event) BY <1>1, <1>3, NotifyTyped DEF ChangeTypes, IInv
  <2>4. Cleared(idx, o.id) BY <1>1, <1>3, RemoveClears DEF IInv
  <2> HIDE DEF new, idx
  <2>5. Unlocked /\ StoreOne(new, idx) BY <1>3 DEF new, idx
  <2>6. QED BY <2>2, <2>3, <2>4, <2>5, StoreOneKeeps
<1>4. QED BY <1>2, <1>3 DEF Update, Replies

\* CreateOrUpdate keeps the invariant.
LEMMA CreateOrUpdateKeeps == ASSUME IInv, NEW o \in Inputs, CreateOrUpdate(o) PROVE IInv'
<1>1. o \in Offer BY CallAssumption
<1>2. CASE (\E r \in Replies : Return(r)) \/ Panic BY <1>2, ReturnKeeps, PanicKeeps
<1>3. CASE /\ Unlocked /\ o.valid
           /\ StoreOne(Upserted(o, clock), IndexWithout(o.id))
           /\ UNCHANGED events
  <2> DEFINE new == Upserted(o, clock)
             idx == IndexWithout(o.id)
  <2>1. new \in Offer /\ new.id = o.id /\ new.valid /\ Cleared(idx, o.id)
    BY <1>1, <1>3, UpsertFacts DEF IInv, TypeOK
  <2>2. events' \in Seq(Event) BY <1>3 DEF IInv, TypeOK
  <2> HIDE DEF new, idx
  <2>3. Unlocked /\ StoreOne(new, idx) BY <1>3 DEF new, idx
  <2>4. QED BY <2>1, <2>2, <2>3, StoreOneKeeps
<1>4. QED BY <1>2, <1>3 DEF CreateOrUpdate, Replies

\* Delete keeps the invariant.
LEMMA DeleteKeepsIInv == ASSUME IInv, NEW id \in Ids, Delete(id) PROVE IInv'
<1>1. CASE \E r \in Replies : Return(r) BY <1>1, ReturnKeeps
<1>2. CASE /\ Unlocked /\ Has(id)
           /\ index' = RemoveFromIndexes(index, offers[id])
           /\ offers' = [offers EXCEPT ![id] = None]
           /\ reply' = "ok"
           /\ UNCHANGED <<offersMade, indexesMade, events, call, clock, panicked, dirty>>
  <2> DEFINE o == offers[id]
  <2>1. o \in Offer /\ o.id = id BY <1>2, TableEntry DEF Has, IInv, TypeOK
  <2>2. index' = RemoveFromIndexes(index, o) /\ offers[id] \in {None, o} BY <1>2
  <2> HIDE DEF o
  <2>3. /\ offers' \in Table /\ index' \in Index
        /\ IndexComplete' /\ IndexExact' /\ OnlyValidStored'
    BY <1>2, <2>1, <2>2, DeleteKeeps DEF IInv
  <2>4. TypeOK' BY <1>2, <2>3 DEF IInv, TypeOK, Index, Replies
  <2>5. FrameOK' BY <1>2 DEF FrameOK, Unlocked
  <2>6. QED BY <2>3, <2>4, <2>5 DEF IInv
<1>3. QED BY <1>1, <1>2 DEF Delete, Replies

-----------------------------------------------------------------------------
\* The bulk calls take the lock.

\* Everything but what a bulk call's frame says of its batch.
LEMMA BeginTyped ==
    ASSUME IInv, NEW op \in BulkOps, NEW b \in Batches, NEW f \in Filters \union {None},
           Begin(op, b, f),
           offers' \in Table, index' \in Index, dirty' \subseteq Ids
    PROVE  /\ TypeOK'
           /\ call'.op = op /\ call'.batch = b /\ call'.old = offers
           /\ call'.pos = 1 /\ call' # None
           /\ ToCome' \subseteq BatchIds(b)
<1>1. offers \in Table /\ clock \in Nat BY DEF IInv, TypeOK
<1>2. /\ call' \in Call /\ call'.op = op /\ call'.batch = b /\ call'.old = offers
      /\ call'.pos = 1
  BY <1>1 DEF Begin, Call
<1>3. UNCHANGED <<offersMade, indexesMade, events, reply, clock, panicked>> BY DEF Begin
<1>4. TypeOK' BY <1>2, <1>3 DEF IInv, TypeOK, Index
<1>5. call' # None BY <1>2, CallFrame
<1>6. ToCome' \subseteq BatchIds(b) BY <1>2 DEF ToCome, BatchIds
<1>7. QED BY <1>2, <1>4, <1>5, <1>6

\* The checks of BulkCreate establish what its loop relies on.
LEMMA BeginBulkCreateKeeps == ASSUME IInv, NEW b \in Batches, BeginBulkCreate(b) PROVE IInv'
<1>1. CASE (\E r \in Replies : Return(r)) \/ Panic BY <1>1, ReturnKeeps, PanicKeeps
<1>2. CASE /\ AllValid(b) /\ Repeated(b) = {} /\ \A id \in BatchIds(b) : ~Has(id)
           /\ Begin("BulkCreate", b, None) /\ UNCHANGED <<offers, index, dirty>>
  <2>1. /\ TypeOK' /\ call'.op = "BulkCreate" /\ call'.batch = b
        /\ ToCome' \subseteq BatchIds(b)
    BY <1>2, BeginTyped DEF BulkOps, IInv, TypeOK, Index
  <2>2. FrameOK' BY <1>2, <2>1 DEF FrameOK, Has
  <2>3. IndexComplete' /\ IndexExact' /\ OnlyValidStored'
    BY <1>2 DEF IInv, IndexComplete, IndexExact, OnlyValidStored
  <2>4. QED BY <2>1, <2>2, <2>3 DEF IInv
<1>3. QED BY <1>1, <1>2 DEF BeginBulkCreate, Replies

\* The checks of BulkUpdate establish what its loop relies on.
LEMMA BeginBulkUpdateKeeps == ASSUME IInv, NEW b \in Batches, BeginBulkUpdate(b) PROVE IInv'
<1>1. CASE (\E r \in Replies : Return(r)) BY <1>1, ReturnKeeps
<1>2. CASE /\ AllValid(b) /\ \A id \in BatchIds(b) : Has(id)
           /\ Begin("BulkUpdate", b, None) /\ UNCHANGED <<offers, index>>
           /\ dirty' = dirty \union Repeated(b)
  <2>1. dirty' \subseteq Ids BY <1>2, BatchIdsAreIds DEF IInv, TypeOK
  <2>2. /\ TypeOK' /\ call'.op = "BulkUpdate" /\ call'.batch = b /\ call'.old = offers
        /\ ToCome' \subseteq BatchIds(b)
    BY <1>2, <2>1, BeginTyped DEF BulkOps, IInv, TypeOK, Index
  <2>3. FrameOK' BY <1>2, <2>2 DEF FrameOK, Has
  <2>4. IndexComplete' /\ IndexExact' /\ OnlyValidStored'
    BY <1>2 DEF IInv, IndexComplete, IndexExact, OnlyValidStored
  <2>5. QED BY <2>2, <2>3, <2>4 DEF IInv
<1>3. QED BY <1>1, <1>2 DEF BeginBulkUpdate, Replies

\* The checks of BulkDelete establish what its loop relies on.
LEMMA BeginBulkDeleteKeeps == ASSUME IInv, NEW b \in Batches, BeginBulkDelete(b) PROVE IInv'
<1>1. CASE (\E r \in Replies : Return(r)) BY <1>1, ReturnKeeps
<1>2. CASE /\ \A id \in BatchIds(b) : Has(id)
           /\ Begin("BulkDelete", b, None) /\ UNCHANGED <<offers, index, dirty>>
  <2>1. /\ TypeOK' /\ call'.op = "BulkDelete" /\ call'.batch = b /\ call'.old = offers
    BY <1>2, BeginTyped DEF BulkOps, IInv, TypeOK, Index
  <2>2. FrameOK' BY <1>2, <2>1 DEF FrameOK, Has
  <2>3. IndexComplete' /\ IndexExact' /\ OnlyValidStored'
    BY <1>2 DEF IInv, IndexComplete, IndexExact, OnlyValidStored
  <2>4. QED BY <2>1, <2>2, <2>3 DEF IInv
<1>3. QED BY <1>1, <1>2 DEF BeginBulkDelete, Replies

\* BulkCreateOrUpdate's loop relies on the validity of its batch only.
LEMMA BeginBulkCreateOrUpdateKeeps ==
    ASSUME IInv, NEW b \in Batches, BeginBulkCreateOrUpdate(b) PROVE IInv'
<1>1. CASE (\E r \in Replies : Return(r)) \/ Panic BY <1>1, ReturnKeeps, PanicKeeps
<1>2. CASE /\ AllValid(b)
           /\ Begin("BulkCreateOrUpdate", b, None) /\ UNCHANGED <<offers, index, dirty>>
  <2>1. TypeOK' /\ call'.op = "BulkCreateOrUpdate" /\ call'.batch = b
    BY <1>2, BeginTyped DEF BulkOps, IInv, TypeOK, Index
  <2>2. FrameOK' BY <1>2, <2>1 DEF FrameOK
  <2>3. IndexComplete' /\ IndexExact' /\ OnlyValidStored'
    BY <1>2 DEF IInv, IndexComplete, IndexExact, OnlyValidStored
  <2>4. QED BY <2>1, <2>2, <2>3 DEF IInv
<1>3. QED BY <1>1, <1>2 DEF BeginBulkCreateOrUpdate, Replies

\* The deletions of an overwrite leave exact indexes and room for its batch.
LEMMA BeginBulkOverwriteKeeps ==
    ASSUME IInv, NEW b \in Batches, NEW f \in Filters, BeginBulkOverwrite(b, f)
    PROVE  IInv'
<1>1. CASE (\E r \in Replies : Return(r)) \/ Panic BY <1>1, ReturnKeeps, PanicKeeps
<1> DEFINE gone == OffersToDelete(offers, f)
<1>2. CASE /\ AllValid(b)
           /\ offers' = [id \in Ids |-> IF id \in gone THEN None ELSE offers[id]]
           /\ index' = RemoveAllFromIndexes(index, offers, gone)
           /\ dirty' = dirty \union Repeated(b)
                         \union {id \in BatchIds(b) : Has(id) /\ id \notin gone}
           /\ Begin("BulkOverwrite", b, f)
  <2>1. \A id \in gone : offers[id] # None BY DEF OffersToDelete
  <2> HIDE DEF gone
  <2>2. offers \in Table /\ index \in Index BY DEF IInv, TypeOK, Index
  <2>3. offers' \in Table BY <1>2, <2>2 DEF Table
  <2>4. /\ index' \in Index
        /\ \A k \in Keys : \A j \in Ids :
              index'[k][j] = IF j \in gone /\ k \in KeysOf(offers[j]) /\ index[k][j] > 0
                             THEN index[k][j] - 1 ELSE index[k][j]
    BY <1>2, <2>2, RemoveAllFacts
  <2>5. dirty' \subseteq Ids BY <1>2, BatchIdsAreIds DEF IInv, TypeOK
  <2>6. /\ TypeOK' /\ call'.op = "BulkOverwrite" /\ call'.batch = b
        /\ ToCome' \subseteq BatchIds(b)
    BY <1>2, <2>3, <2>4, <2>5, BeginTyped DEF BulkOps
  <2>7. FrameOK'
    <3>1. Repeated(b) \subseteq dirty' BY <1>2
    <3>2. ASSUME NEW id \in ToCome' \ dirty' PROVE offers'[id] = None
      <4>1. id \in BatchIds(b) /\ id \in Ids BY <2>6, <3>2, BatchIdsAreIds
      <4>2. ~Has(id) \/ id \in gone BY <1>2, <3>2, <4>1
      <4>3. QED BY <1>2, <4>1, <4>2 DEF Has
    <3>3. QED BY <1>2, <2>6, <3>1, <3>2 DEF FrameOK
  <2>8. IndexComplete'
    <3>1. ASSUME NEW id \in Ids, offers'[id] # None, NEW k \in KeysOf(offers'[id])
          PROVE  index'[k][id] > 0
      <4>1. id \notin gone /\ offers'[id] = offers[id] BY <1>2, <3>1
      <4>2. k \in Keys BY <2>3, <3>1, TableEntry, KeysOfOffer
      <4>3. index[k][id] > 0 BY <3>1, <4>1 DEF IInv, IndexComplete
      <4>4. QED BY <2>4, <4>1, <4>2, <4>3
    <3>2. QED BY <3>1 DEF IndexComplete
  <2>9. IndexExact'
    <3>1. ASSUME NEW id \in Ids \ dirty', NEW k \in Keys
          PROVE  index'[k][id] = IF offers'[id] # None /\ k \in KeysOf(offers'[id])
                                 THEN 1 ELSE 0
      <4>1. id \notin dirty BY <1>2, <3>1
      <4>2. index[k][id] = IF offers[id] # None /\ k \in KeysOf(offers[id]) THEN 1 ELSE 0
        BY <3>1, <4>1 DEF IInv, IndexExact
      <4>3. QED BY <1>2, <2>1, <2>4, <3>1, <4>2
    <3>2. QED BY <3>1 DEF IndexExact
  <2>10. OnlyValidStored' BY <1>2 DEF IInv, OnlyValidStored
  <2>11. QED BY <2>6, <2>7, <2>8, <2>9, <2>10 DEF IInv
<1>3. QED BY <1>1, <1>2 DEF BeginBulkOverwrite, Replies

-----------------------------------------------------------------------------
\* The iterations of the bulk loops.

\* The frame of a running call and the frame of its next iteration.  An ID
\* still to come after this iteration was to come before it, and is another
\* one unless the batch repeats it.
LEMMA FrameFacts ==
    ASSUME IInv, NEW op \in BulkOps, Running(op), NextIteration
    PROVE  /\ call \in Call /\ call.op = op /\ call.batch \in Batches
           /\ call.now \in Nat /\ call.pos \in Nat /\ call.old \in Table
           /\ call' \in Call /\ call'.op = op /\ call'.batch = call.batch
           /\ call'.old = call.old
           /\ ToCome' \subseteq ToCome
           /\ UNCHANGED <<offersMade, indexesMade, reply, clock, panicked, dirty>>
<1>1. call \in Call /\ call.op = op BY DEF IInv, TypeOK, Running
<1>2. /\ call.batch \in Batches /\ call.now \in Nat /\ call.pos \in Nat
      /\ call.old \in Table
  BY <1>1 DEF Call
<1>3. /\ call' \in Call /\ call'.op = call.op /\ call'.batch = call.batch
      /\ call'.old = call.old /\ call'.pos = call.pos + 1
  BY <1>1, <1>2 DEF NextIteration, Call
<1>4. ToCome' \subseteq ToCome
  <2>1. DOMAIN call.batch \subseteq Nat BY <1>2, CallAssumption
  <2>2. QED BY <1>2, <1>3, <2>1 DEF ToCome
<1>5. UNCHANGED <<offersMade, indexesMade, reply, clock, panicked, dirty>>
  BY DEF NextIteration
<1>6. QED BY <1>1, <1>2, <1>3, <1>4, <1>5

\* The offer of the current iteration is one of the batch, still to come.
LEMMA CurrentFacts ==
    ASSUME IInv, NEW op \in BulkOps, Running(op), InLoop
    PROVE  /\ Current \in Offer /\ Current.id \in Ids
           /\ Current.id \in ToCome /\ Current.id \in BatchIds(call.batch)
           /\ NextIteration /\ Current.id \in ToCome' =>
                 Current.id \in Repeated(call.batch)
<1>1. call \in Call BY DEF IInv, TypeOK, Running
<1>2. call.batch \in Batches /\ call.pos \in Nat BY <1>1 DEF Call
<1>3. /\ Current \in Offer /\ Current.id \in Ids
      /\ Current.id \in BatchIds(call.batch)
  BY <1>2, BatchElement DEF InLoop, Current
<1>4. Current.id \in ToCome BY <1>2 DEF InLoop, Current, ToCome
<1>5. ASSUME NextIteration, Current.id \in ToCome'
      PROVE  Current.id \in Repeated(call.batch)
  <2>1. call'.batch = call.batch /\ call'.pos = call.pos + 1
    BY <1>1, <1>2, <1>5 DEF NextIteration, Call
  <2>2. PICK j \in DOMAIN call.batch : j >= call.pos + 1 /\ call.batch[j].id = Current.id
    BY <1>5, <2>1 DEF ToCome
  <2>3. j # call.pos
    <3>1. j \in Nat BY <1>2, CallAssumption
    <3>2. QED BY <1>2, <2>2, <3>1
  <2>4. QED BY <1>3, <2>2, <2>3 DEF InLoop, Current, Repeated
<1>6. QED BY <1>3, <1>4, <1>5

\* An iteration that stores an offer keeps everything but, perhaps, FrameOK.
LEMMA IterationStores ==
    ASSUME IInv, NEW op \in BulkOps, Running(op), NextIteration, events' = events,
           NEW o \in Offer, o.valid, NEW idx, Cleared(idx, o.id),
           offers' = [offers EXCEPT ![o.id] = o],
           index' = AddToIndexes(idx, o)
    PROVE  /\ TypeOK' /\ IndexComplete' /\ IndexExact' /\ OnlyValidStored'
           /\ \A id \in Ids : id # o.id => offers'[id] = offers[id]
<1>1. /\ call' \in Call
      /\ UNCHANGED <<offersMade, indexesMade, reply, clock, panicked, dirty>>
  BY FrameFacts
<1>2. /\ offers' \in Table /\ index' \in Index
      /\ IndexComplete' /\ IndexExact' /\ OnlyValidStored'
  BY <1>1, StoreKeeps DEF IInv
<1>3. TypeOK' BY <1>1, <1>2 DEF IInv, TypeOK, Index
<1>4. \A id \in Ids : id # o.id => offers'[id] = offers[id]
  BY TableStore DEF IInv, TypeOK
<1>5. QED BY <1>2, <1>3, <1>4

\* An iteration of BulkCreate keeps the invariant.
LEMMA BulkCreateStepKeeps == ASSUME IInv, BulkCreateStep PROVE IInv'
<1>1. /\ Running("BulkCreate") /\ InLoop /\ NextIteration /\ events' = events
      /\ "BulkCreate" \in BulkOps
  BY DEF BulkCreateStep, BulkOps
<1>2. /\ Current \in Offer /\ Current.id \in Ids /\ Current.id \in ToCome
      /\ Current.id \in ToCome' => Current.id \in Repeated(call.batch)
  BY <1>1, CurrentFacts
<1>3. /\ call.op = "BulkCreate" /\ call # None /\ call.batch \in Batches
      /\ call.now \in Nat
      /\ call'.op = call.op /\ call'.batch = call.batch /\ ToCome' \subseteq ToCome
  BY <1>1, FrameFacts DEF Running
<1>4. /\ AllValid(call.batch) /\ Repeated(call.batch) = {}
      /\ \A id \in ToCome : offers[id] = None
  BY <1>3 DEF IInv, FrameOK
<1> DEFINE o == Stamped(Current, call.now, call.now)
<1>5. o \in Offer /\ o.id = Current.id /\ o.valid
  <2>1. Current.valid BY <1>1, <1>4 DEF InLoop, Current, AllValid
  <2>2. QED BY <1>2, <1>3, <2>1, StampedFacts
<1>6. offers' = [offers EXCEPT ![o.id] = o] /\ index' = AddToIndexes(index, o)
  BY DEF BulkCreateStep
<1> HIDE DEF o
<1>7. Cleared(index, o.id) BY <1>2, <1>4, <1>5, AbsentCleared DEF IInv, Has
<1>8. /\ TypeOK' /\ IndexComplete' /\ IndexExact' /\ OnlyValidStored'
      /\ \A id \in Ids : id # o.id => offers'[id] = offers[id]
  BY <1>1, <1>5, <1>6, <1>7, IterationStores
<1>9. ASSUME NEW id \in ToCome' PROVE offers'[id] = None
  <2>1. id \in ToCome /\ id # o.id BY <1>2, <1>3, <1>4, <1>5, <1>9
  <2>2. id \in Ids BY <1>3, <2>1, BatchElement DEF ToCome
  <2>3. QED BY <1>4, <1>8, <2>1, <2>2
<1>10. FrameOK' BY <1>3, <1>4, <1>9 DEF FrameOK
<1>11. QED BY <1>8, <1>10 DEF IInv

\* An iteration of BulkUpdate keeps the invariant.
LEMMA BulkUpdateStepKeeps == ASSUME IInv, BulkUpdateStep PROVE IInv'
<1>1. /\ Running("BulkUpdate") /\ InLoop /\ NextIteration /\ events' = events
      /\ "BulkUpdate" \in BulkOps
  BY DEF BulkUpdateStep, BulkOps
<1>2. /\ Current \in Offer /\ Current.id \in Ids /\ Current.id \in ToCome
      /\ Current.id \in BatchIds(call.batch)
      /\ Current.id \in ToCome' => Current.id \in Repeated(call.batch)
  BY <1>1, CurrentFacts
<1>3. /\ call.op = "BulkUpdate" /\ call # None /\ call.batch \in Batches
      /\ call.now \in Nat /\ call.old \in Table /\ dirty' = dirty
      /\ call'.op = call.op /\ call'.batch = call.batch /\ call'.old = call.old
      /\ ToCome' \subseteq ToCome
  BY <1>1, FrameFacts DEF Running
<1>4. /\ AllValid(call.batch) /\ Repeated(call.batch) \subseteq dirty
      /\ \A id \in BatchIds(call.batch) : call.old[id] # None
      /\ \A id \in ToCome \ dirty : offers[id] = call.old[id]
  BY <1>3 DEF IInv, FrameOK
<1> DEFINE was == call.old[Current.id]
           o == Stamped(Current, was.created, call.now)
           idx == RemoveFromIndexes(index, was)
<1>5. was \in Offer /\ was.id = Current.id BY <1>2, <1>3, <1>4, TableEntry
<1>6. o \in Offer /\ o.id = Current.id /\ o.valid
  <2>1. Current.valid BY <1>1, <1>4 DEF InLoop, Current, AllValid
  <2>2. was.created \in Nat BY <1>5 DEF Offer
  <2> HIDE DEF was
  <2>3. o \in Offer /\ o.id = Current.id /\ o.valid = Current.valid
    BY <1>2, <1>3, <2>2, StampedFacts
  <2>4. QED BY <2>1, <2>3
<1>7. offers' = [offers EXCEPT ![o.id] = o] /\ index' = AddToIndexes(idx, o)
  BY DEF BulkUpdateStep
<1>8. Cleared(idx, Current.id)
  <2>1. CASE Current.id \in dirty
    <3> HIDE DEF was
    <3>1. index \in Index BY DEF IInv, TypeOK, Index
    <3>2. /\ idx \in Index
          /\ \A k \in Keys : \A j \in Ids : j # was.id => idx[k][j] = index[k][j]
      BY <1>5, <3>1, RemoveFacts
    <3>3. QED BY <1>5, <2>1, <3>2 DEF Cleared
  <2>2. CASE Current.id \notin dirty
    <3>1. was = offers[Current.id] /\ Has(Current.id) BY <1>2, <1>4, <2>2 DEF Has
    <3>2. QED BY <1>2, <3>1, RemoveClears DEF IInv
  <2>3. QED BY <2>1, <2>2
<1> HIDE DEF o, idx
<1>9. /\ TypeOK' /\ IndexComplete' /\ IndexExact' /\ OnlyValidStored'
      /\ \A id \in Ids : id # o.id => offers'[id] = offers[id]
  BY <1>1, <1>6, <1>7, <1>8, IterationStores
<1>10. ASSUME NEW id \in ToCome' \ dirty PROVE offers'[id] = call.old[id]
  <2>1. id \in ToCome /\ id # o.id BY <1>2, <1>3, <1>4, <1>6, <1>10
  <2>2. id \in Ids BY <1>3, <2>1, BatchElement DEF ToCome
  <2>3. QED BY <1>4, <1>9, <1>10, <2>1, <2>2
<1>11. FrameOK' BY <1>3, <1>4, <1>10 DEF FrameOK
<1>12. QED BY <1>9, <1>11 DEF IInv

\* An iteration of BulkDelete keeps the invariant.
LEMMA BulkDeleteStepKeeps == ASSUME IInv, BulkDeleteStep PROVE IInv'
<1>1. /\ Running("BulkDelete") /\ InLoop /\ NextIteration /\ events' = events
      /\ "BulkDelete" \in BulkOps
  BY DEF BulkDeleteStep, BulkOps
<1>2. Current.id \in Ids /\ Current.id \in BatchIds(call.batch) BY <1>1, CurrentFacts
<1>3. /\ call.op = "BulkDelete" /\ call # None /\ call.batch \in Batches
      /\ call.old \in Table /\ call' \in Call
      /\ call'.op = call.op /\ call'.batch = call.batch /\ call'.old = call.old
      /\ UNCHANGED <<offersMade, indexesMade, reply, clock, panicked, dirty>>
  BY <1>1, FrameFacts DEF Running
<1>4. \A id \in BatchIds(call.batch) :
         call.old[id] # None /\ offers[id] \in {None, call.old[id]}
  BY <1>3 DEF IInv, FrameOK
<1> DEFINE was == call.old[Current.id]
<1>5. was \in Offer /\ was.id = Current.id /\ offers[Current.id] \in {None, was}
  BY <1>2, <1>3, <1>4, TableEntry
<1>6. /\ offers' = [offers EXCEPT ![Current.id] = None]
      /\ index' = RemoveFromIndexes(index, was)
  BY DEF BulkDeleteStep
<1> HIDE DEF was
<1>7. /\ offers' \in Table /\ index' \in Index
      /\ IndexComplete' /\ IndexExact' /\ OnlyValidStored'
  BY <1>2, <1>3, <1>5, <1>6, DeleteKeeps DEF IInv
<1>8. TypeOK' BY <1>1, <1>3, <1>7 DEF IInv, TypeOK, Index
<1>9. ASSUME NEW id \in BatchIds(call.batch) PROVE offers'[id] \in {None, call.old[id]}
  <2>1. id \in Ids BY <1>3, <1>9, BatchIdsAreIds
  <2>2. offers'[id] = IF id = Current.id THEN None ELSE offers[id]
    BY <1>2, <1>6, <2>1 DEF IInv, TypeOK, Table
  <2>3. QED BY <1>4, <1>9, <2>2
<1>10. FrameOK' BY <1>3, <1>4, <1>9 DEF FrameOK
<1>11. QED BY <1>7, <1>8, <1>10 DEF IInv

\* An iteration of BulkCreateOrUpdate keeps the invariant.
LEMMA BulkCreateOrUpdateStepKeeps == ASSUME IInv, BulkCreateOrUpdateStep PROVE IInv'
<1>1. /\ Running("BulkCreateOrUpdate") /\ InLoop /\ NextIteration /\ events' = events
      /\ "BulkCreateOrUpdate" \in BulkOps
  BY DEF BulkCreateOrUpdateStep, BulkOps
<1>2. Current \in Offer BY <1>1, CurrentFacts
<1>3. /\ call.op = "BulkCreateOrUpdate" /\ call # None /\ call.now \in Nat
      /\ call'.op = call.op /\ call'.batch = call.batch
  BY <1>1, FrameFacts DEF Running
<1>4. AllValid(call.batch) BY <1>3 DEF IInv, FrameOK
<1> DEFINE o == Upserted(Current, call.now)
           idx == IndexWithout(o.id)
<1>5. o \in Offer /\ o.id = Current.id /\ o.valid /\ Cleared(idx, o.id)
  <2>1. Current.valid BY <1>1, <1>4 DEF InLoop, Current, AllValid
  <2>2. QED BY <1>2, <1>3, <2>1, UpsertFacts DEF IInv
<1>6. offers' = [offers EXCEPT ![o.id] = o] /\ index' = AddToIndexes(idx, o)
  BY DEF BulkCreateOrUpdateStep
<1> HIDE DEF o, idx
<1>7. TypeOK' /\ IndexComplete' /\ IndexExact' /\ OnlyValidStored'
  BY <1>1, <1>5, <1>6, IterationStores
<1>8. FrameOK' BY <1>3, <1>4 DEF FrameOK
<1>9. QED BY <1>7, <1>8 DEF IInv

\* An iteration of an overwrite's insertions keeps the invariant.
LEMMA BulkOverwriteStepKeeps == ASSUME IInv, BulkOverwriteStep PROVE IInv'
<1>1. /\ Running("BulkOverwrite") /\ InLoop /\ NextIteration /\ events' = events
      /\ "BulkOverwrite" \in BulkOps
  BY DEF BulkOverwriteStep, BulkOps
<1>2. /\ Current \in Offer /\ Current.id \in Ids /\ Current.id \in ToCome
      /\ Current.id \in ToCome' => Current.id \in Repeated(call.batch)
  BY <1>1, CurrentFacts
<1>3. /\ call.op = "BulkOverwrite" /\ call # None /\ call.batch \in Batches
      /\ call.now \in Nat /\ dirty' = dirty
      /\ call'.op = call.op /\ call'.batch = call.batch /\ ToCome' \subseteq ToCome
  BY <1>1, FrameFacts DEF Running
<1>4. /\ AllValid(call.batch) /\ Repeated(call.batch) \subseteq dirty
      /\ \A id \in ToCome \ dirty : offers[id] = None
  BY <1>3 DEF IInv, FrameOK
<1> DEFINE o == Stamped(Current, CreatedOr(Current, call.now), call.now)
<1>5. o \in Offer /\ o.id = Current.id /\ o.valid
  <2>1. Current.valid BY <1>1, <1>4 DEF InLoop, Current, AllValid
  <2>2. CreatedOr(Current, call.now) \in Nat BY <1>2, <1>3, CreatedOrNat
  <2>3. o \in Offer BY <1>2, <1>3, <2>2, StampedFacts
  <2>4. o.id = Current.id /\ o.valid BY <1>2, <1>3, <2>1, <2>2, StampedFacts
  <2>5. QED BY <2>3, <2>4
<1>6. offers' = [offers EXCEPT ![o.id] = o] /\ index' = AddToIndexes(index, o)
  BY DEF BulkOverwriteStep
<1> HIDE DEF o
<1>7. Cleared(index, o.id) BY <1>2, <1>4, <1>5, AbsentCleared DEF IInv, Has
<1>8. /\ TypeOK' /\ IndexComplete' /\ IndexExact' /\ OnlyValidStored'
      /\ \A id \in Ids : id # o.id => offers'[id] = offers[id]
  BY <1>1, <1>5, <1>6, <1>7, IterationStores
<1>9. ASSUME NEW id \in ToCome' \ dirty PROVE offers'[id] = None
  <2>1. id \in ToCome /\ id # o.id BY <1>2, <1>3, <1>4, <1>5, <1>9
  <2>2. id \in Ids BY <1>3, <2>1, BatchElement DEF ToCome
  <2>3. QED BY <1>4, <1>8, <1>9, <2>1, <2>2
<1>10. FrameOK' BY <1>3, <1>4, <1>9 DEF FrameOK
<1>11. QED BY <1>8, <1>10 DEF IInv

\* An iteration of an overwrite's notifications keeps the invariant.
LEMMA BulkOverwriteNotifyKeeps == ASSUME IInv, BulkOverwriteNotify PROVE IInv'
<1> DEFINE i == call.pos - Len(call.batch)
<1>1. /\ Running("BulkOverwrite") /\ NextIteration /\ "BulkOverwrite" \in BulkOps
      /\ i \in DOMAIN call.batch
      /\ Notify([type |-> "overwritten", id |-> call.batch[i].id])
      /\ UNCHANGED <<offers, index>>
  BY DEF BulkOverwriteNotify, BulkOps, InNotifyLoop
<1>2. /\ call.op = "BulkOverwrite" /\ call # None /\ call.batch \in Batches
      /\ call' \in Call /\ call'.op = call.op /\ call'.batch = call.batch
      /\ ToCome' \subseteq ToCome
      /\ UNCHANGED <<offersMade, indexesMade, reply, clock, panicked, dirty>>
  BY <1>1, FrameFacts DEF Running
<1> HIDE DEF i
<1>3. call.batch[i].id \in Ids BY <1>1, <1>2, BatchElement
<1>4. events' \in Seq(Event) BY <1>1, <1>3, NotifyTyped DEF ChangeTypes, IInv
<1>5. TypeOK' BY <1>1, <1>2, <1>4 DEF IInv, TypeOK
<1>6. FrameOK' BY <1>1, <1>2 DEF IInv, FrameOK
<1>7. IndexComplete' /\ IndexExact' /\ OnlyValidStored'
  BY <1>1, <1>2 DEF IInv, IndexComplete, IndexExact, OnlyValidStored
<1>8. QED BY <1>5, <1>6, <1>7 DEF IInv

\* The return of a bulk call keeps the invariant.
LEMMA BulkReturnKeeps == ASSUME IInv, BulkReturn PROVE IInv'
<1>1. /\ call' = None /\ reply' = "ok" /\ clock' \in {clock, clock + 1}
      /\ UNCHANGED <<offers, index, offersMade, indexesMade, events, panicked, dirty>>
  BY DEF BulkReturn
<1>2. TypeOK' BY <1>1 DEF IInv, TypeOK, Replies
<1>3. FrameOK' BY <1>1 DEF FrameOK
<1>4. IndexComplete' /\ IndexExact' /\ OnlyValidStored'
  BY <1>1 DEF IInv, IndexComplete, IndexExact, OnlyValidStored
<1>5. QED BY <1>2, <1>3, <1>4 DEF IInv

-----------------------------------------------------------------------------
\* The eventProcessor's receive keeps the invariant.
LEMMA ConsumeKeeps == ASSUME IInv, Consume PROVE IInv'
<1>1. events \in Seq(Event) /\ events # <<>> BY DEF IInv, TypeOK, Consume
<1>2. events' \in Seq(Event) BY <1>1 DEF Consume
<1>3. UNCHANGED <<offers, index, offersMade, indexesMade, call, reply, clock, panicked, dirty>>
  BY DEF Consume
<1>4. TypeOK' BY <1>2, <1>3 DEF IInv, TypeOK
<1>5. QED BY <1>3, <1>4, QuietKeeps DEF IInv

\* Close and Restart leave an empty store.
LEMMA EmptyKeeps ==
    ASSUME IInv, offers' = EmptyTable, index' = EmptyIndex, call' = None, dirty' = {},
           offersMade' \in BOOLEAN, indexesMade' \in BOOLEAN, events' \in Seq(Event),
           reply' \in Replies, clock' \in Nat, panicked' \in BOOLEAN
    PROVE  IInv'
<1>1. offers' \in Table /\ \A id \in Ids : offers'[id] = None BY DEF EmptyTable, Table
<1>2. index' \in Index /\ \A k \in Keys : \A id \in Ids : index'[k][id] = 0
  BY DEF EmptyIndex, Index
<1>3. TypeOK' BY <1>1, <1>2 DEF TypeOK, Index
<1>4. FrameOK' BY DEF FrameOK
<1>5. IndexComplete' /\ OnlyValidStored' BY <1>1 DEF IndexComplete, OnlyValidStored
<1>6. IndexExact' BY <1>1, <1>2 DEF IndexExact
<1>7. QED BY <1>3, <1>4, <1>5, <1>6 DEF IInv

\* Close keeps the invariant.
LEMMA CloseKeeps == ASSUME IInv, Close PROVE IInv'
<1>1. offersMade' \in BOOLEAN /\ indexesMade' \in BOOLEAN BY DEF Close
<1>2. /\ events' \in Seq(Event) /\ reply' \in Replies /\ clock' \in Nat
      /\ panicked' \in BOOLEAN
  BY DEF Close, IInv, TypeOK
<1>3. QED BY <1>1, <1>2, EmptyKeeps DEF Close, Unlocked

\* A restart keeps the invariant.
LEMMA RestartKeeps == ASSUME IInv, Restart PROVE IInv'
<1>1. offersMade' \in BOOLEAN /\ indexesMade' \in BOOLEAN /\ panicked' \in BOOLEAN
  BY BoundAssumption DEF Restart
<1>2. events' \in Seq(Event) /\ reply' \in Replies /\ clock' \in Nat
  BY DEF Restart, IInv, TypeOK, Replies
<1>3. QED BY <1>1, <1>2, EmptyKeeps DEF Restart

-----------------------------------------------------------------------------
\* Every step of the store, of any call, keeps the invariant.
LEMMA StepKeeps == IInv /\ [Next]_vars => IInv'
<1> SUFFICES ASSUME IInv, [Next]_vars PROVE IInv' OBVIOUS
<1>1. ASSUME NEW o \in Inputs, Create(o) \/ Update(o) \/ CreateOrUpdate(o) PROVE IInv'
  BY <1>1, CreateKeeps, UpdateKeeps, CreateOrUpdateKeeps
<1>2. ASSUME NEW id \in Ids, Delete(id) PROVE IInv' BY <1>2, DeleteKeepsIInv
<1>3. ASSUME NEW b \in Batches,
             \/ BeginBulkCreate(b) \/ BeginBulkUpdate(b) \/ BeginBulkDelete(b)
             \/ BeginBulkCreateOrUpdate(b)
             \/ \E f \in Filters : BeginBulkOverwrite(b, f)
      PROVE  IInv'
  BY <1>3, BeginBulkCreateKeeps, BeginBulkUpdateKeeps, BeginBulkDeleteKeeps,
     BeginBulkCreateOrUpdateKeeps, BeginBulkOverwriteKeeps
<1>4. CASE BulkCreateStep \/ BulkUpdateStep \/ BulkDeleteStep
  BY <1>4, BulkCreateStepKeeps, BulkUpdateStepKeeps, BulkDeleteStepKeeps
<1>5. CASE BulkCreateOrUpdateStep \/ BulkOverwriteStep \/ BulkOverwriteNotify
  BY <1>5, BulkCreateOrUpdateStepKeeps, BulkOverwriteStepKeeps, BulkOverwriteNotifyKeeps
<1>6. CASE BulkReturn \/ Consume \/ Close \/ Restart
  BY <1>6, BulkReturnKeeps, ConsumeKeeps, CloseKeeps, RestartKeeps
<1>7. CASE UNCHANGED vars
  <2>1. UNCHANGED <<offers, index, offersMade, indexesMade, events, call, reply, clock,
                    panicked, dirty>>
    BY <1>7 DEF vars
  <2>2. TypeOK' BY <2>1 DEF IInv, TypeOK
  <2>3. QED BY <2>1, <2>2, QuietKeeps DEF IInv
<1>8. QED BY <1>1, <1>2, <1>3, <1>4, <1>5, <1>6, <1>7 DEF Next

\* The inductive invariant holds in every state the store can reach: every
\* single and bulk call, Close and restart preserve it together.
THEOREM Inductive == Spec => []IInv
<1>1. QED BY InitIInv, StepKeeps, PTL DEF Spec

\* The state is always of its type.
THEOREM TypeCorrect == Spec => []TypeOK
<1>1. IInv => TypeOK BY DEF IInv
<1>2. QED BY <1>1, Inductive, PTL

\* What the checks made before a bulk loop established holds at each of its
\* iterations: no other call changes the table under it.
THEOREM FramesSound == Spec => []FrameOK
<1>1. IInv => FrameOK BY DEF IInv
<1>2. QED BY <1>1, Inductive, PTL

\* No query through an index misses a stored offer, whatever the callers pass.
THEOREM IndexesComplete == Spec => []IndexComplete
<1>1. IInv => IndexComplete BY DEF IInv
<1>2. QED BY <1>1, Inductive, PTL

\* A stale or doubled index entry always comes from an ID that a BulkUpdate
\* repeated or an overwrite inserted beside a survivor or twice.
THEOREM IndexesExact == Spec => []IndexExact
<1>1. IInv => IndexExact BY DEF IInv
<1>2. QED BY <1>1, Inductive, PTL

\* Nothing that Validate rejects is ever stored.
THEOREM StoredIsValid == Spec => []OnlyValidStored
<1>1. IInv => OnlyValidStored BY DEF IInv
<1>2. QED BY <1>1, Inductive, PTL

-----------------------------------------------------------------------------
\* The store implements AtomicStore.  A call takes effect for its readers when it
\* returns; what a bulk call's loop has made of the table by then is what the closed
\* form says of the whole batch, and on the way what it says of a part of it.

\* AtomicStore's own copies of the operators on offers are those of the store.
LEMMA SameOperators ==
    /\ \A b : /\ Atomic!AllValid(b) <=> AllValid(b)
              /\ Atomic!BatchIds(b) = BatchIds(b) /\ Atomic!Repeated(b) = Repeated(b)
    /\ \A o, c, t : Atomic!Stamped(o, c, t) = Stamped(o, c, t)
    /\ \A o, t : Atomic!CreatedOr(o, t) = CreatedOr(o, t)
    /\ \A t, f : Atomic!OffersToDelete(t, f) = OffersToDelete(t, f)
    /\ Atomic!EmptyTable = EmptyTable
BY DEF Atomic!AllValid, AllValid, Atomic!BatchIds, BatchIds, Atomic!Repeated, Repeated,
       Atomic!Stamped, Stamped, Atomic!CreatedOr, CreatedOr, Atomic!OffersToDelete,
       OffersToDelete, Atomic!MatchesOverwriteFilter, MatchesOverwriteFilter,
       Atomic!EmptyTable, EmptyTable

\* What the i-th iteration of a loop puts into the table, of which the loop found
\* `old`, and what the call takes out of the table before its loop.
After(op, b, old, now, i) ==
    LET id == b[i].id
    IN  CASE op = "BulkDelete" -> None
          [] op = "BulkCreate" -> Stamped(b[i], now, now)
          [] op = "BulkUpdate" -> Stamped(b[i], old[id].created, now)
          [] op = "BulkCreateOrUpdate" ->
                Stamped(b[i], IF old[id] # None THEN old[id].created
                              ELSE CreatedOr(Atomic!First(b, id), now), now)
          [] op = "BulkOverwrite" -> Stamped(b[i], CreatedOr(b[i], now), now)
Before(op, old, f) ==
    IF op = "BulkOverwrite"
    THEN [id \in Ids |-> IF id \in OffersToDelete(old, f) THEN None ELSE old[id]]
    ELSE old

\* The iterations before pos do not have the ID; i is the last of them that has it.
Untouched(b, pos, id) == \A j \in DOMAIN b : j < pos => b[j].id # id
LastBefore(b, pos, i, id) ==
    /\ i \in DOMAIN b /\ i < pos /\ b[i].id = id
    /\ \A j \in DOMAIN b : i < j /\ j < pos => b[j].id # id

\* How far a loop has come: each ID has what its last iteration so far gave it.
LoopOK ==
    call # None =>
        /\ call.now = clock /\ call.pos >= 1
        /\ call.op # "BulkDelete" => MayStore
        /\ call.op = "BulkOverwrite" => call.filter \in Filters
        /\ call.op = "BulkCreate" => \A id \in BatchIds(call.batch) : call.old[id] = None
        /\ \A id \in Ids :
              \/ /\ Untouched(call.batch, call.pos, id)
                 /\ offers[id] = Before(call.op, call.old, call.filter)[id]
              \/ /\ \E i \in DOMAIN call.batch :
                       /\ LastBefore(call.batch, call.pos, i, id)
                       /\ offers[id] = After(call.op, call.batch, call.old, call.now, i)
                 /\ call.op # "BulkDelete" => offers[id] # None

\* Of two first or two last occurrences of an ID there is one.
LEMMA FirstAndLast ==
    ASSUME NEW b \in Batches, NEW i \in DOMAIN b
    PROVE  /\ (\A j \in DOMAIN b : j < i => b[j].id # b[i].id) => Atomic!First(b, b[i].id) = b[i]
           /\ (\A j \in DOMAIN b : i < j => b[j].id # b[i].id) => Atomic!Last(b, b[i].id) = b[i]
<1>1. b \in Seq(Offer) BY CallAssumption
<1>2. DOMAIN b = 1..Len(b) /\ Len(b) \in Nat BY <1>1
<1>3. ASSUME \A j \in DOMAIN b : j < i => b[j].id # b[i].id
      PROVE  Atomic!First(b, b[i].id) = b[i]
  <2> DEFINE P(k) == b[k].id = b[i].id /\ \A j \in 1..(k-1) : b[j].id # b[i].id
  <2>1. P(i) BY <1>2, <1>3
  <2>2. ASSUME NEW k \in DOMAIN b, P(k) PROVE k = i
    <3>1. ~(k < i) BY <1>3, <2>2
    <3>2. ~(i < k) BY <1>2, <2>2
    <3>3. QED BY <1>2, <3>1, <3>2
  <2>3. (CHOOSE k \in DOMAIN b : P(k)) = i BY <2>1, <2>2
  <2>4. QED BY <2>3 DEF Atomic!First
<1>4. ASSUME \A j \in DOMAIN b : i < j => b[j].id # b[i].id
      PROVE  Atomic!Last(b, b[i].id) = b[i]
  <2> DEFINE P(k) == b[k].id = b[i].id /\ \A j \in (k+1)..Len(b) : b[j].id # b[i].id
  <2>1. P(i) BY <1>2, <1>4
  <2>2. ASSUME NEW k \in DOMAIN b, P(k) PROVE k = i
    <3>1. ~(i < k) BY <1>4, <2>2
    <3>2. ~(k < i) BY <1>2, <2>2
    <3>3. QED BY <1>2, <3>1, <3>2
  <2>3. (CHOOSE k \in DOMAIN b : P(k)) = i BY <2>1, <2>2
  <2>4. QED BY <2>3 DEF Atomic!Last
<1>5. QED BY <1>3, <1>4

\* The first iteration finds no ID touched.
LEMMA LoopBegins ==
    ASSUME IInv, IInv', NEW op \in BulkOps, NEW b \in Batches, NEW f \in Filters \union {None},
           Begin(op, b, f), op # "BulkDelete" => MayStore, op = "BulkOverwrite" => f \in Filters,
           op = "BulkCreate" => \A id \in BatchIds(b) : offers[id] = None,
           \A id \in Ids : offers'[id] = Before(op, offers, f)[id]
    PROVE  LoopOK'
<1>1. offers \in Table /\ clock \in Nat BY DEF IInv, TypeOK
<1>2. /\ call'.op = op /\ call'.batch = b /\ call'.old = offers /\ call'.filter = f
      /\ call'.pos = 1 /\ call'.now = clock /\ clock' = clock
  BY <1>1 DEF Begin
<1>3. \A id : Untouched(b, 1, id)
  <2>1. DOMAIN b \subseteq Nat \ {0} BY CallAssumption
  <2>2. QED BY <2>1 DEF Untouched
<1>4. QED BY <1>2, <1>3 DEF LoopOK, MayStore

\* An iteration that stores what After says for it.
LEMMA LoopGoesOn ==
    ASSUME IInv, LoopOK, NEW op \in BulkOps, Running(op), InLoop, NextIteration,
           NEW o, offers' = [offers EXCEPT ![Current.id] = o],
           o = After(op, call.batch, call.old, call.now, call.pos),
           op # "BulkDelete" => o # None
    PROVE  LoopOK'
<1> DEFINE b == call.batch
           pos == call.pos
<1>1. call \in Call /\ call # None /\ call.op = op BY DEF IInv, TypeOK, Running
<1>2. /\ b \in Batches /\ pos \in Nat /\ pos \in DOMAIN b
      /\ call'.op = op /\ call'.batch = b /\ call'.old = call.old /\ call'.now = call.now
      /\ call'.filter = call.filter /\ call'.pos = pos + 1 /\ clock' = clock
  BY <1>1 DEF NextIteration, Call, InLoop
<1>3. DOMAIN b \subseteq Nat BY <1>2, CallAssumption
<1>4. Current.id \in Ids /\ Current.id = b[pos].id BY <1>2, BatchElement DEF Current
<1>5. offers'[Current.id] = o /\ \A id \in Ids \ {Current.id} : offers'[id] = offers[id]
  BY <1>4 DEF IInv, TypeOK, Table
<1> HIDE DEF b, pos
<1>6. \A j \in DOMAIN b : j < pos + 1 <=> j < pos \/ j = pos BY <1>2, <1>3
<1>7. LastBefore(b, pos + 1, pos, Current.id) BY <1>2, <1>3, <1>4 DEF LastBefore
<1>8. ASSUME NEW id \in Ids \ {Current.id}
      PROVE  /\ Untouched(b, pos, id) => Untouched(b, pos + 1, id)
             /\ \A i : LastBefore(b, pos, i, id) => LastBefore(b, pos + 1, i, id)
  BY <1>4, <1>6, <1>8 DEF Untouched, LastBefore
<1>9. ASSUME NEW id \in Ids
      PROVE  \/ /\ Untouched(b, pos + 1, id)
                /\ offers'[id] = Before(op, call.old, call.filter)[id]
             \/ /\ \E i \in DOMAIN b : /\ LastBefore(b, pos + 1, i, id)
                                       /\ offers'[id] = After(op, b, call.old, call.now, i)
                /\ op # "BulkDelete" => offers'[id] # None
  <2>1. CASE id = Current.id BY <1>2, <1>5, <1>7, <2>1 DEF b, pos
  <2>2. CASE id # Current.id BY <1>1, <1>5, <1>8, <2>2 DEF LoopOK, b, pos
  <2>3. QED BY <2>1, <2>2
<1>10. call.now = clock /\ pos >= 1 /\ (op # "BulkDelete" => MayStore)
       /\ (op = "BulkOverwrite" => call.filter \in Filters)
       /\ (op = "BulkCreate" => \A id \in BatchIds(b) : call.old[id] = None)
  BY <1>1 DEF LoopOK, b, pos
<1>11. QED BY <1>2, <1>9, <1>10 DEF LoopOK, MayStore

\* Each loop stores what After says: BulkCreate and BulkOverwrite by their own code,
\* BulkUpdate from the table its call found, an upsert from the table as it is.
LEMMA LoopStepsKeep ==
    ASSUME IInv, LoopOK,
           \/ BulkCreateStep \/ BulkUpdateStep \/ BulkDeleteStep
           \/ BulkCreateOrUpdateStep \/ BulkOverwriteStep
    PROVE  LoopOK'
<1> DEFINE b == call.batch
           id == Current.id
<1>1. PICK op \in BulkOps : Running(op) /\ InLoop /\ NextIteration
  BY DEF BulkCreateStep, BulkUpdateStep, BulkDeleteStep, BulkCreateOrUpdateStep,
         BulkOverwriteStep, BulkOps
<1>2. call \in Call /\ call # None /\ call.op = op BY <1>1 DEF IInv, TypeOK, Running
<1>3. b \in Batches /\ call.pos \in DOMAIN b /\ call.now \in Nat /\ call.old \in Table
  BY <1>1, <1>2 DEF Call, InLoop
<1>4. Current \in Offer /\ id \in Ids /\ id \in BatchIds(b) /\ Current = b[call.pos]
  BY <1>1, CurrentFacts DEF Current
<1>5. \A o \in Offer : o # None BY NoneAssumption
<1>6. CASE BulkCreateStep
  <2> DEFINE o == Stamped(Current, call.now, call.now)
  <2>1. op = "BulkCreate" BY <1>2, <1>6 DEF BulkCreateStep, Running
  <2>2. o \in Offer /\ o.id = id BY <1>3, <1>4, StampedFacts
  <2>3. offers' = [offers EXCEPT ![o.id] = o] BY <1>6 DEF BulkCreateStep
  <2>4. o = After(op, b, call.old, call.now, call.pos) BY <1>4, <2>1 DEF After
  <2> HIDE DEF o
  <2>5. QED BY <1>1, <1>5, <2>1, <2>2, <2>3, <2>4, LoopGoesOn
<1>7. CASE BulkUpdateStep
  <2> DEFINE o == Stamped(Current, call.old[id].created, call.now)
  <2>1. op = "BulkUpdate" BY <1>2, <1>7 DEF BulkUpdateStep, Running
  <2>2. call.old[id] # None BY <1>2, <1>4, <2>1 DEF IInv, FrameOK
  <2>3. call.old[id].created \in Nat BY <1>3, <1>4, <2>2, TableEntry DEF Offer
  <2>4. o \in Offer /\ o.id = id BY <1>3, <1>4, <2>3, StampedFacts
  <2>5. offers' = [offers EXCEPT ![o.id] = o] BY <1>7 DEF BulkUpdateStep
  <2>6. o = After(op, b, call.old, call.now, call.pos) BY <1>4, <2>1 DEF After
  <2> HIDE DEF o
  <2>7. QED BY <1>1, <1>5, <2>1, <2>4, <2>5, <2>6, LoopGoesOn
<1>8. CASE BulkDeleteStep
  <2>1. op = "BulkDelete" BY <1>2, <1>8 DEF BulkDeleteStep, Running
  <2>2. offers' = [offers EXCEPT ![id] = None] BY <1>8 DEF BulkDeleteStep
  <2>3. None = After(op, b, call.old, call.now, call.pos) BY <2>1 DEF After
  <2>4. QED BY <1>1, <2>1, <2>2, <2>3, LoopGoesOn
<1>9. CASE BulkCreateOrUpdateStep
  <2> DEFINE o == Upserted(Current, call.now)
             created == IF call.old[id] # None THEN call.old[id].created
                        ELSE CreatedOr(Atomic!First(b, id), call.now)
  <2>1. op = "BulkCreateOrUpdate" BY <1>2, <1>9 DEF BulkCreateOrUpdateStep, Running
  <2>2. o \in Offer /\ o.id = id BY <1>3, <1>4, UpsertFacts DEF IInv
  <2>3. offers' = [offers EXCEPT ![o.id] = o] BY <1>9 DEF BulkCreateOrUpdateStep
  <2>4. o = Stamped(Current, created, call.now)
    <3>1. CASE Untouched(b, call.pos, id) /\ offers[id] = call.old[id]
      <4>1. DOMAIN b \subseteq Nat BY <1>3, CallAssumption
      <4>2. Atomic!First(b, id) = Current
        BY <1>3, <1>4, <3>1, <4>1, FirstAndLast DEF Untouched
      <4>3. QED BY <3>1, <4>2 DEF Upserted, Has
    <3>2. ASSUME NEW i \in DOMAIN b, LastBefore(b, call.pos, i, id), offers[id] # None,
                 offers[id] = After(op, b, call.old, call.now, i)
          PROVE  o = Stamped(Current, created, call.now)
      <4>1. b[i] \in Offer /\ b[i].id = id BY <1>3, <3>2, BatchElement DEF LastBefore
      <4>2. offers[id] = Stamped(b[i], created, call.now) BY <2>1, <3>2, <4>1 DEF After
      <4> HIDE DEF created
      <4>3. Stamped(b[i], created, call.now).created = created BY <4>1 DEF Stamped, Offer
      <4>4. QED BY <3>2, <4>2, <4>3 DEF Upserted, Has
    <3> HIDE DEF o, created
    <3>3. Before(op, call.old, call.filter) = call.old BY <2>1 DEF Before
    <3>4. QED BY <1>2, <1>4, <2>1, <3>1, <3>2, <3>3 DEF LoopOK
  <2>5. o = After(op, b, call.old, call.now, call.pos) BY <1>4, <2>1, <2>4 DEF After
  <2> HIDE DEF o
  <2>6. QED BY <1>1, <1>5, <2>1, <2>2, <2>3, <2>5, LoopGoesOn
<1>10. CASE BulkOverwriteStep
  <2> DEFINE o == Stamped(Current, CreatedOr(Current, call.now), call.now)
  <2>1. op = "BulkOverwrite" BY <1>2, <1>10 DEF BulkOverwriteStep, Running
  <2>2. CreatedOr(Current, call.now) \in Nat BY <1>3, <1>4, CreatedOrNat
  <2>3. o \in Offer /\ o.id = id BY <1>3, <1>4, <2>2, StampedFacts
  <2>4. offers' = [offers EXCEPT ![o.id] = o] BY <1>10 DEF BulkOverwriteStep
  <2>5. o = After(op, b, call.old, call.now, call.pos) BY <1>4, <2>1 DEF After
  <2> HIDE DEF o
  <2>6. QED BY <1>1, <1>5, <2>1, <2>3, <2>4, <2>5, LoopGoesOn
<1>11. QED BY <1>6, <1>7, <1>8, <1>9, <1>10

\* The second loop of an overwrite, whose iterations find no offer to store.
LEMMA LoopNotifies == ASSUME IInv, LoopOK, BulkOverwriteNotify PROVE LoopOK'
<1>1. Running("BulkOverwrite") /\ ~InLoop /\ NextIteration /\ offers' = offers
  BY DEF BulkOverwriteNotify
<1>2. call \in Call /\ call # None BY <1>1 DEF IInv, TypeOK, Running
<1>3. /\ call.batch \in Batches /\ call.pos \in Nat /\ call.pos \notin DOMAIN call.batch
      /\ call'.op = call.op /\ call'.batch = call.batch /\ call'.old = call.old
      /\ call'.now = call.now /\ call'.filter = call.filter /\ call'.pos = call.pos + 1
      /\ clock' = clock
  BY <1>1, <1>2 DEF NextIteration, Call, InLoop
<1>4. DOMAIN call.batch \subseteq Nat BY <1>3, CallAssumption
<1>5. \A j \in DOMAIN call.batch : j < call.pos + 1 <=> j < call.pos BY <1>3, <1>4
<1>6. \A id : /\ Untouched(call.batch, call.pos, id) => Untouched(call.batch, call.pos + 1, id)
              /\ \A i : LastBefore(call.batch, call.pos, i, id) =>
                           LastBefore(call.batch, call.pos + 1, i, id)
  BY <1>5 DEF Untouched, LastBefore
<1>7. call.pos + 1 >= 1 BY <1>3
<1>8. QED BY <1>1, <1>2, <1>3, <1>6, <1>7 DEF LoopOK, MayStore

\* The bulk calls take the lock with what LoopOK asks.
LEMMA LoopsBegin ==
    ASSUME IInv, IInv', NEW b \in Batches, call' # None,
           \/ BeginBulkCreate(b) \/ BeginBulkUpdate(b) \/ BeginBulkDelete(b)
           \/ BeginBulkCreateOrUpdate(b)
           \/ \E f \in Filters : BeginBulkOverwrite(b, f)
    PROVE  LoopOK'
<1>1. offers \in Table BY DEF IInv, TypeOK
<1>2. Return("ok") \/ Return("invalid") \/ Return("exists") \/ Return("missing") \/ Panic
         => call' = call
  BY DEF Return, Panic
<1>3. call = None
  BY DEF BeginBulkCreate, BeginBulkUpdate, BeginBulkDelete, BeginBulkCreateOrUpdate,
         BeginBulkOverwrite, Unlocked
<1>4. ~Return("ok") /\ ~Return("invalid") /\ ~Return("exists") /\ ~Return("missing") /\ ~Panic
  BY <1>2, <1>3
<1>5. ASSUME NEW op \in BulkOps \ {"BulkOverwrite"}, Begin(op, b, None), UNCHANGED offers,
             op # "BulkDelete" => MayStore,
             op = "BulkCreate" => \A id \in BatchIds(b) : offers[id] = None
      PROVE  LoopOK'
  <2>1. \A id \in Ids : offers'[id] = Before(op, offers, None)[id] BY <1>5 DEF Before
  <2>2. QED BY <1>5, <2>1, LoopBegins
<1>6. CASE BeginBulkCreate(b)
  <2>1. /\ Begin("BulkCreate", b, None) /\ MayStore /\ UNCHANGED offers
        /\ \A id \in BatchIds(b) : offers[id] = None
    BY <1>4, <1>6 DEF BeginBulkCreate, Has
  <2>2. QED BY <1>5, <2>1 DEF BulkOps
<1>7. CASE BeginBulkUpdate(b)
  <2>1. Begin("BulkUpdate", b, None) /\ MayStore /\ UNCHANGED offers
    BY <1>4, <1>7 DEF BeginBulkUpdate
  <2>2. QED BY <1>5, <2>1 DEF BulkOps
<1>8. CASE BeginBulkDelete(b)
  <2>1. Begin("BulkDelete", b, None) /\ UNCHANGED offers BY <1>4, <1>8 DEF BeginBulkDelete
  <2>2. QED BY <1>5, <2>1 DEF BulkOps
<1>9. CASE BeginBulkCreateOrUpdate(b)
  <2>1. Begin("BulkCreateOrUpdate", b, None) /\ MayStore /\ UNCHANGED offers
    BY <1>4, <1>9 DEF BeginBulkCreateOrUpdate
  <2>2. QED BY <1>5, <2>1 DEF BulkOps
<1>10. ASSUME NEW f \in Filters, BeginBulkOverwrite(b, f) PROVE LoopOK'
  <2>1. /\ Begin("BulkOverwrite", b, f) /\ MayStore
        /\ offers' = [id \in Ids |-> IF id \in OffersToDelete(offers, f) THEN None
                                     ELSE offers[id]]
    BY <1>4, <1>10 DEF BeginBulkOverwrite
  <2>2. \A id \in Ids : offers'[id] = Before("BulkOverwrite", offers, f)[id]
    BY <2>1 DEF Before
  <2>3. QED BY <2>1, <2>2, LoopBegins DEF BulkOps
<1>11. QED BY <1>6, <1>7, <1>8, <1>9, <1>10

\* Every step keeps what is known of the loops.
LEMMA LoopKeeps == ASSUME IInv, LoopOK, [Next]_vars PROVE LoopOK'
<1>1. IInv' BY StepKeeps
<1>2. CASE UNCHANGED <<offers, call, clock>> BY <1>2 DEF LoopOK, MayStore
<1>3. CASE call' = None BY <1>3 DEF LoopOK
<1>4. CASE call' # None /\ ~UNCHANGED <<offers, call, clock>>
  <2>1. ~Consume /\ ~UNCHANGED vars BY <1>4 DEF Consume, vars
  <2>2. ~BulkReturn /\ ~Restart BY <1>4 DEF BulkReturn, Restart
  <2>3. ~Close BY <1>4 DEF Close, Unlocked
  <2>4. \A o \in Inputs : ~Create(o) /\ ~Update(o) /\ ~CreateOrUpdate(o)
    BY <1>4 DEF Create, Update, CreateOrUpdate, Unlocked, Return, Panic, StoreOne
  <2>5. \A id \in Ids : ~Delete(id) BY <1>4 DEF Delete, Unlocked, Return
  <2>6. QED BY <1>1, <1>4, <2>1, <2>2, <2>3, <2>4, <2>5, LoopStepsKeep, LoopNotifies, LoopsBegin
        DEF Next
<1>5. QED BY <1>2, <1>3, <1>4

-----------------------------------------------------------------------------
\* Steps that readers and callers do not see.
Unseen == UNCHANGED <<Visible, reply, clock>>

\* A call of one offer is one step of AtomicStore.
LEMMA SinglesImplement ==
    ASSUME IInv, NEW o \in Inputs, Create(o) \/ Update(o) \/ CreateOrUpdate(o)
    PROVE  Atomic!Next \/ Unseen
<1>1. call = None /\ call' = call
  BY DEF Create, Update, CreateOrUpdate, Unlocked, Return, Panic, StoreOne
<1>2. Visible = offers /\ Visible' = offers' BY <1>1 DEF Visible
<1>3. \A r : Return(r) => Atomic!Refuse(r) BY <1>2 DEF Return, Atomic!Refuse
<1>4. Panic => Unseen BY <1>2 DEF Panic, Unseen
<1>5. \A id : Has(id) <=> Atomic!Present(id) BY <1>2 DEF Has, Atomic!Present
<1>6. \A s, idx : StoreOne(s, idx) /\ MayStore => Atomic!Become([Visible EXCEPT ![s.id] = s])
  BY <1>2 DEF StoreOne, MayStore, Atomic!Become
<1>7. o \in Offer /\ o.id \in Ids BY CallAssumption DEF Offer
<1>8. \A c, t : Stamped(o, c, t).id = o.id BY <1>7 DEF Stamped, Offer
<1>9. CASE Create(o)
  <2>1. o.valid /\ ~Has(o.id) /\ MayStore /\ StoreOne(Stamped(o, clock, clock), index)
        => Atomic!Create(o)
    BY <1>5, <1>6, <1>8, SameOperators DEF Atomic!Create
  <2>2. ~o.valid /\ Return("invalid") => Atomic!Create(o) BY <1>3 DEF Atomic!Create
  <2>3. o.valid /\ Has(o.id) /\ Return("exists") => Atomic!Create(o)
    BY <1>3, <1>5 DEF Atomic!Create
  <2>4. Atomic!Create(o) \/ Unseen BY <1>4, <1>9, <2>1, <2>2, <2>3 DEF Create
  <2>5. QED BY <2>4 DEF Atomic!Next
<1>10. CASE Update(o)
  <2>1. o.valid /\ Has(o.id) /\ MayStore
          /\ StoreOne(Stamped(o, o.created, clock), RemoveFromIndexes(index, offers[o.id]))
        => Atomic!Update(o)
    BY <1>5, <1>6, <1>8, SameOperators DEF Atomic!Update
  <2>2. ~o.valid /\ Return("invalid") => Atomic!Update(o) BY <1>3 DEF Atomic!Update
  <2>3. o.valid /\ ~Has(o.id) /\ Return("missing") => Atomic!Update(o)
    BY <1>3, <1>5 DEF Atomic!Update
  <2>4. Atomic!Update(o) BY <1>10, <2>1, <2>2, <2>3 DEF Update
  <2>5. QED BY <2>4 DEF Atomic!Next
<1>11. CASE CreateOrUpdate(o)
  <2>1. Upserted(o, clock) = Stamped(o, Atomic!UpsertCreated(<<o>>, o.id), clock)
    <3>1. Atomic!First(<<o>>, o.id) = o
      <4>1. <<o>>[1] = o /\ DOMAIN <<o>> = {1} OBVIOUS
      <4>2. \A j \in 1..0 : FALSE OBVIOUS
      <4>3. (CHOOSE i \in DOMAIN <<o>> :
                /\ <<o>>[i].id = o.id
                /\ \A j \in 1..(i-1) : <<o>>[j].id # o.id) = 1
        BY <4>1, <4>2
      <4>4. QED BY <4>1, <4>3 DEF Atomic!First
    <3>2. QED
      BY <1>2, <1>5, <3>1, SameOperators
      DEF Upserted, Has, Atomic!UpsertCreated, Atomic!OldCreated
  <2>2. MayStore /\ StoreOne(Upserted(o, clock), IndexWithout(o.id)) /\ o.valid
        => Atomic!CreateOrUpdate(o)
    BY <1>6, <1>8, <2>1, SameOperators DEF Atomic!CreateOrUpdate
  <2>3. ~o.valid /\ Return("invalid") => Atomic!CreateOrUpdate(o)
    BY <1>3 DEF Atomic!CreateOrUpdate
  <2>4. Atomic!CreateOrUpdate(o) \/ Unseen BY <1>4, <1>11, <2>2, <2>3 DEF CreateOrUpdate
  <2>5. QED BY <2>4 DEF Atomic!Next
<1>12. QED BY <1>9, <1>10, <1>11

\* So is a deletion.
LEMMA DeleteImplements == ASSUME IInv, NEW id \in Ids, Delete(id) PROVE Atomic!Delete(id)
<1>1. Visible = offers /\ Visible' = offers' BY DEF Delete, Unlocked, Return, Visible
<1>2. Has(id) <=> Atomic!Present(id) BY <1>1 DEF Has, Atomic!Present
<1>3. CASE ~Has(id)
  <2>1. Return("missing") BY <1>3 DEF Delete
  <2>2. Atomic!Refuse("missing") BY <1>1, <2>1 DEF Return, Atomic!Refuse
  <2>3. QED BY <1>2, <1>3, <2>2 DEF Atomic!Delete
<1>4. CASE Has(id)
  <2>1. offers' = [offers EXCEPT ![id] = None] /\ reply' = "ok" /\ clock' = clock
    BY <1>4 DEF Delete
  <2>2. offers' = Atomic!Without(offers, {id})
    BY <2>1 DEF IInv, TypeOK, Table, Atomic!Without
  <2>3. Atomic!Remove({id}) BY <1>1, <2>1, <2>2 DEF Atomic!Remove
  <2>4. QED BY <1>2, <1>4, <2>3 DEF Atomic!Delete
<1>5. QED BY <1>3, <1>4

\* A bulk call that takes the lock changes nothing its readers see: they wait for it.
LEMMA BeginUnseen ==
    ASSUME IInv, IInv', call = None, NEW op \in BulkOps, NEW b \in Batches,
           NEW f \in Filters \union {None}, Begin(op, b, f)
    PROVE  Unseen
<1>1. offers' \in Table /\ index' \in Index /\ dirty' \subseteq Ids BY DEF IInv, TypeOK, Index
<1>2. call' # None /\ call'.old = offers BY <1>1, BeginTyped
<1>3. QED BY <1>2 DEF Begin, Unseen, Visible

\* A refused or empty bulk call is one step; one that takes the lock, or meets a nil
\* map, is not seen.
LEMMA BeginImplements ==
    ASSUME IInv, IInv', NEW b \in Batches,
           \/ BeginBulkCreate(b) \/ BeginBulkUpdate(b) \/ BeginBulkDelete(b)
           \/ BeginBulkCreateOrUpdate(b)
           \/ \E f \in Filters : BeginBulkOverwrite(b, f)
    PROVE  Atomic!Next \/ Unseen
<1>1. call = None /\ Visible = offers
  BY DEF BeginBulkCreate, BeginBulkUpdate, BeginBulkDelete, BeginBulkCreateOrUpdate,
         BeginBulkOverwrite, Unlocked, Visible
<1>2. \A r : Return(r) => Atomic!Refuse(r) BY <1>1 DEF Return, Atomic!Refuse, Visible
<1>3. Panic => Unseen BY <1>1 DEF Panic, Unseen, Visible
<1>4. \A op \in BulkOps, f \in Filters \union {None} : Begin(op, b, f) => Unseen
  BY <1>1, BeginUnseen
<1>5. \A id : Has(id) <=> Atomic!Present(id) BY <1>1 DEF Has, Atomic!Present
<1>6. CASE BeginBulkCreate(b)
  <2>1. Begin("BulkCreate", b, None) => Unseen BY <1>4 DEF BulkOps
  <2>2. ASSUME NEW i \in DOMAIN b, Wrong(b, i), Return(IF b[i].valid THEN "exists" ELSE "invalid")
        PROVE  Atomic!BulkCreate(b)
    <3>1. b \in Seq(Offer) BY CallAssumption
    <3>2. CASE ~b[i].valid
      <4>1. ~Atomic!AllValid(b) BY <3>2 DEF Atomic!AllValid
      <4>2. Atomic!Refuse("invalid") BY <1>2, <2>2, <3>2
      <4>3. QED BY <4>1, <4>2 DEF Atomic!BulkCreate
    <3>3. CASE b[i].valid
      <4>1. PICK j \in (i+1)..Len(b) : b[j].id = b[i].id BY <2>2, <3>3 DEF Wrong
      <4>2. j \in DOMAIN b /\ j # i BY <3>1, <4>1
      <4>3. b[i].id \in Atomic!Repeated(b)
        BY <4>1, <4>2 DEF Atomic!Repeated, Atomic!BatchIds
      <4>4. Atomic!Refuse("exists") BY <1>2, <2>2, <3>3
      <4>5. QED BY <4>3, <4>4 DEF Atomic!BulkCreate
    <3>4. QED BY <3>2, <3>3
  <2>3. Atomic!BulkCreate(b) \/ Unseen
    BY <1>2, <1>3, <1>5, <1>6, <2>1, <2>2, SameOperators DEF BeginBulkCreate, Atomic!BulkCreate
  <2>4. QED BY <2>3 DEF Atomic!Next
<1>7. CASE BeginBulkUpdate(b)
  <2>1. Begin("BulkUpdate", b, None) => Unseen BY <1>4 DEF BulkOps
  <2>2. Atomic!BulkUpdate(b) \/ Unseen
    BY <1>2, <1>5, <1>7, <2>1, SameOperators DEF BeginBulkUpdate, Atomic!BulkUpdate
  <2>3. QED BY <2>2 DEF Atomic!Next
<1>8. CASE BeginBulkDelete(b)
  <2>1. Begin("BulkDelete", b, None) => Unseen BY <1>4 DEF BulkOps
  <2>2. ASSUME b = <<>>, Return("ok") PROVE Atomic!BulkDelete(b)
    <3>1. BatchIds(b) = {} BY <2>2 DEF BatchIds
    <3>2. offers = Atomic!Without(offers, {}) BY DEF IInv, TypeOK, Table, Atomic!Without
    <3>3. Visible' = offers /\ reply' = "ok" /\ clock' = clock
      BY <1>1, <2>2 DEF Return, Visible
    <3>4. Atomic!Remove(BatchIds(b)) BY <1>1, <3>1, <3>2, <3>3 DEF Atomic!Remove
    <3>5. QED BY <3>1, <3>4, SameOperators DEF Atomic!BulkDelete
  <2>3. Atomic!BulkDelete(b) \/ Unseen
    BY <1>2, <1>5, <1>8, <2>1, <2>2, SameOperators DEF BeginBulkDelete, Atomic!BulkDelete
  <2>4. QED BY <2>3 DEF Atomic!Next
<1>9. CASE BeginBulkCreateOrUpdate(b)
  <2>1. Begin("BulkCreateOrUpdate", b, None) => Unseen BY <1>4 DEF BulkOps
  <2>2. Atomic!BulkCreateOrUpdate(b) \/ Unseen
    BY <1>2, <1>3, <1>9, <2>1, SameOperators
    DEF BeginBulkCreateOrUpdate, Atomic!BulkCreateOrUpdate
  <2>3. QED BY <2>2 DEF Atomic!Next
<1>10. ASSUME NEW f \in Filters, BeginBulkOverwrite(b, f) PROVE Atomic!Next \/ Unseen
  <2>1. Begin("BulkOverwrite", b, f) => Unseen BY <1>4 DEF BulkOps
  <2>2. Atomic!BulkOverwrite(b, f) \/ Unseen
    BY <1>2, <1>3, <1>10, <2>1, SameOperators DEF BeginBulkOverwrite, Atomic!BulkOverwrite
  <2>3. QED BY <2>2 DEF Atomic!Next
<1>11. QED BY <1>6, <1>7, <1>8, <1>9, <1>10

\* When its loop has ended, each ID of the batch has what the last offer for it gave,
\* and every other ID what the table had before the loop.
LEMMA LoopDone ==
    ASSUME IInv, LoopOK, call # None, ~InLoop, NEW id \in Ids
    PROVE  /\ id \in BatchIds(call.batch) =>
                 \E i \in DOMAIN call.batch :
                    /\ call.batch[i].id = id
                    /\ call.batch[i] = Atomic!Last(call.batch, id)
                    /\ offers[id] = After(call.op, call.batch, call.old, clock, i)
           /\ id \notin BatchIds(call.batch) =>
                 offers[id] = Before(call.op, call.old, call.filter)[id]
<1> DEFINE b == call.batch
<1>1. call \in Call BY DEF IInv, TypeOK
<1>2. b \in Batches /\ call.pos \in Nat /\ call.pos >= 1 /\ call.pos \notin DOMAIN b
  BY <1>1 DEF Call, InLoop, LoopOK
<1>3. b \in Seq(Offer) BY <1>2, CallAssumption
<1>4. Len(b) \in Nat /\ DOMAIN b = 1..Len(b) BY <1>3
<1>5. \A j \in DOMAIN b : j < call.pos BY <1>2, <1>4
<1>6. CASE id \in BatchIds(b)
  <2>1. ~Untouched(b, call.pos, id) BY <1>5, <1>6 DEF Untouched, BatchIds
  <2>2. PICK i \in DOMAIN b : /\ LastBefore(b, call.pos, i, id)
                              /\ offers[id] = After(call.op, b, call.old, call.now, i)
    BY <2>1 DEF LoopOK
  <2>3. b[i].id = id /\ \A j \in DOMAIN b : i < j => b[j].id # b[i].id
    BY <1>5, <2>2 DEF LastBefore
  <2>4. b[i] = Atomic!Last(b, id) BY <1>2, <2>3, FirstAndLast
  <2>5. call.now = clock BY DEF LoopOK
  <2>6. QED BY <1>6, <2>2, <2>3, <2>4, <2>5
<1>7. CASE id \notin BatchIds(b)
  <2>1. ~\E i \in DOMAIN b : LastBefore(b, call.pos, i, id) BY <1>7 DEF LastBefore, BatchIds
  <2>2. QED BY <1>7, <2>1 DEF LoopOK
<1>8. QED BY <1>6, <1>7

\* Any other step of a call that holds the lock is not seen.
LEMMA LoopsUnseen ==
    ASSUME IInv, IInv',
           \/ BulkCreateStep \/ BulkUpdateStep \/ BulkDeleteStep
           \/ BulkCreateOrUpdateStep \/ BulkOverwriteStep \/ BulkOverwriteNotify
    PROVE  Unseen
<1>1. call # None /\ NextIteration
  BY DEF BulkCreateStep, BulkUpdateStep, BulkDeleteStep, BulkCreateOrUpdateStep,
         BulkOverwriteStep, BulkOverwriteNotify, Running
<1>2. call \in Call BY <1>1 DEF IInv, TypeOK
<1>3. call' \in Call /\ call'.old = call.old BY <1>1, <1>2 DEF NextIteration, Call
<1>4. call' # None BY <1>3, CallFrame
<1>5. QED BY <1>1, <1>3, <1>4 DEF NextIteration, Unseen, Visible

\* The return of a bulk call is the one step of AtomicStore that does all of it.
LEMMA ReturnImplements == ASSUME IInv, LoopOK, BulkReturn PROVE Atomic!Next
<1> DEFINE b == call.batch
           old == call.old
<1>1. call # None /\ ~InLoop /\ call' = None /\ reply' = "ok" /\ offers' = offers
  BY DEF BulkReturn
<1>2. call \in Call BY <1>1 DEF IInv, TypeOK
<1>3. b \in Batches /\ call.op \in BulkOps /\ old \in Table /\ offers \in Table
  BY <1>2 DEF Call, IInv, TypeOK
<1>4. Visible = old /\ Visible' = offers BY <1>1 DEF Visible
<1>5. \A id : Atomic!Present(id) <=> old[id] # None BY <1>4 DEF Atomic!Present
<1>6. BatchIds(b) \subseteq Ids BY <1>3, BatchIdsAreIds
<1>7. call.op # "BulkDelete" =>
        /\ AllValid(b) /\ clock < MaxClock /\ clock' = clock + 1
        /\ \A t : offers = t => Atomic!Become(t)
  BY <1>1, <1>4 DEF IInv, FrameOK, LoopOK, MayStore, BulkReturn, Atomic!Become
<1> HIDE DEF b, old
<1>8. ASSUME NEW id \in Ids
      PROVE  /\ id \in BatchIds(b) =>
                   \E i \in DOMAIN b : /\ b[i].id = id /\ b[i] = Atomic!Last(b, id)
                                       /\ offers[id] = After(call.op, b, old, clock, i)
             /\ id \notin BatchIds(b) => offers[id] = Before(call.op, old, call.filter)[id]
  BY <1>1, LoopDone DEF b, old
<1>9. ASSUME NEW t, t = [id \in Ids |-> t[id]], \A id \in Ids : offers[id] = t[id]
      PROVE  offers = t
  BY <1>3, <1>9 DEF Table
<1>10. CASE call.op = "BulkCreate"
  <2> DEFINE t == Atomic!Overlaid(old, b, LAMBDA id : clock)
  <2>1. Repeated(b) = {} /\ \A id \in BatchIds(b) : old[id] = None
    BY <1>1, <1>10 DEF IInv, FrameOK, LoopOK, b, old
  <2>2. t = [id \in Ids |-> IF id \in BatchIds(b)
                            THEN Stamped(Atomic!Last(b, id), clock, clock) ELSE old[id]]
    BY SameOperators DEF Atomic!Overlaid
  <2>3. ASSUME NEW id \in Ids PROVE offers[id] = t[id]
    BY <1>8, <1>10, <2>2 DEF After, Before
  <2>4. offers = t BY <1>9, <2>2, <2>3
  <2>5. Atomic!Become(t) BY <1>7, <1>10, <2>4
  <2>6. Atomic!BulkCreate(b)
    BY <1>4, <1>5, <1>7, <1>10, <2>1, <2>5, SameOperators DEF Atomic!BulkCreate
  <2>7. QED BY <1>3, <2>6 DEF Atomic!Next
<1>11. CASE call.op = "BulkUpdate"
  <2> DEFINE t == Atomic!Overlaid(old, b, Atomic!OldCreated)
  <2>1. \A id \in BatchIds(b) : old[id] # None BY <1>1, <1>11 DEF IInv, FrameOK, b, old
  <2>2. t = [id \in Ids |-> IF id \in BatchIds(b)
                            THEN Stamped(Atomic!Last(b, id), old[id].created, clock)
                            ELSE old[id]]
    BY <1>4, SameOperators DEF Atomic!Overlaid, Atomic!OldCreated
  <2>3. ASSUME NEW id \in Ids PROVE offers[id] = t[id]
    BY <1>8, <1>11, <2>2 DEF After, Before
  <2>4. offers = t BY <1>9, <2>2, <2>3
  <2>5. Atomic!Become(t) BY <1>7, <1>11, <2>4
  <2>6. Atomic!BulkUpdate(b)
    BY <1>4, <1>5, <1>7, <1>11, <2>1, <2>5, SameOperators DEF Atomic!BulkUpdate
  <2>7. QED BY <1>3, <2>6 DEF Atomic!Next
<1>12. CASE call.op = "BulkDelete"
  <2> DEFINE t == Atomic!Without(old, BatchIds(b))
  <2>1. \A id \in BatchIds(b) : old[id] # None BY <1>1, <1>12 DEF IInv, FrameOK, b, old
  <2>2. t = [id \in Ids |-> IF id \in BatchIds(b) THEN None ELSE old[id]]
    BY DEF Atomic!Without
  <2>3. ASSUME NEW id \in Ids PROVE offers[id] = t[id]
    BY <1>8, <1>12, <2>2 DEF After, Before
  <2>4. offers = t BY <1>9, <2>2, <2>3
  <2>5. clock' = clock BY <1>12 DEF BulkReturn
  <2>6. Atomic!Remove(BatchIds(b)) BY <1>1, <1>4, <2>4, <2>5 DEF Atomic!Remove
  <2>7. Atomic!BulkDelete(b) BY <1>5, <2>1, <2>6, SameOperators DEF Atomic!BulkDelete
  <2>8. QED BY <1>3, <2>7 DEF Atomic!Next
<1>13. CASE call.op = "BulkCreateOrUpdate"
  <2> DEFINE t == Atomic!Overlaid(old, b, LAMBDA id : Atomic!UpsertCreated(b, id))
  <2>1. t = [id \in Ids |-> IF id \in BatchIds(b)
                            THEN Stamped(Atomic!Last(b, id),
                                         IF old[id] # None THEN old[id].created
                                         ELSE CreatedOr(Atomic!First(b, id), clock), clock)
                            ELSE old[id]]
    BY <1>4, <1>5, SameOperators DEF Atomic!Overlaid, Atomic!UpsertCreated, Atomic!OldCreated
  <2>2. ASSUME NEW id \in Ids PROVE offers[id] = t[id]
    BY <1>8, <1>13, <2>1 DEF After, Before
  <2>3. offers = t BY <1>9, <2>1, <2>2
  <2>4. Atomic!Become(t) BY <1>7, <1>13, <2>3
  <2>5. Atomic!BulkCreateOrUpdate(b)
    BY <1>4, <1>7, <1>13, <2>4, SameOperators DEF Atomic!BulkCreateOrUpdate
  <2>6. QED BY <1>3, <2>5 DEF Atomic!Next
<1>14. CASE call.op = "BulkOverwrite"
  <2> DEFINE f == call.filter
             rest == Atomic!Without(old, Atomic!OffersToDelete(old, f))
             t == Atomic!Overlaid(rest, b, LAMBDA id : Atomic!CreatedOr(Atomic!Last(b, id), clock))
  <2>1. f \in Filters BY <1>1, <1>14 DEF LoopOK
  <2>2. rest = [id \in Ids |-> IF id \in OffersToDelete(old, f) THEN None ELSE old[id]]
    BY SameOperators DEF Atomic!Without
  <2>3. t = [id \in Ids |-> IF id \in BatchIds(b)
                            THEN Stamped(Atomic!Last(b, id),
                                         CreatedOr(Atomic!Last(b, id), clock), clock)
                            ELSE rest[id]]
    BY SameOperators DEF Atomic!Overlaid
  <2>4. ASSUME NEW id \in Ids PROVE offers[id] = t[id]
    BY <1>8, <1>14, <2>2, <2>3 DEF After, Before
  <2>5. offers = t BY <1>9, <2>3, <2>4
  <2>6. Atomic!Become(t) BY <1>7, <1>14, <2>5
  <2>7. Atomic!BulkOverwrite(b, f)
    BY <1>4, <1>7, <1>14, <2>6, SameOperators DEF Atomic!BulkOverwrite
  <2>8. QED BY <1>3, <2>1, <2>7 DEF Atomic!Next
<1>15. QED BY <1>3, <1>10, <1>11, <1>12, <1>13, <1>14 DEF BulkOps

\* Every step of the store is a step of AtomicStore or is not seen.
LEMMA StepImplements ==
    ASSUME IInv, LoopOK, [Next]_vars PROVE [Atomic!Next]_(Atomic!vars)
<1> SUFFICES Atomic!Next \/ Unseen BY DEF Unseen, Atomic!vars
<1>1. IInv' BY StepKeeps
<1>2. ASSUME NEW o \in Inputs, Create(o) \/ Update(o) \/ CreateOrUpdate(o)
      PROVE  Atomic!Next \/ Unseen
  BY <1>2, SinglesImplement
<1>3. ASSUME NEW id \in Ids, Delete(id) PROVE Atomic!Next
  BY <1>3, DeleteImplements DEF Atomic!Next
<1>4. ASSUME NEW b \in Batches,
             \/ BeginBulkCreate(b) \/ BeginBulkUpdate(b) \/ BeginBulkDelete(b)
             \/ BeginBulkCreateOrUpdate(b)
             \/ \E f \in Filters : BeginBulkOverwrite(b, f)
      PROVE  Atomic!Next \/ Unseen
  BY <1>1, <1>4, BeginImplements
<1>5. CASE \/ BulkCreateStep \/ BulkUpdateStep \/ BulkDeleteStep
           \/ BulkCreateOrUpdateStep \/ BulkOverwriteStep \/ BulkOverwriteNotify
  BY <1>1, <1>5, LoopsUnseen
<1>6. CASE BulkReturn BY <1>6, ReturnImplements
<1>7. CASE Consume \/ UNCHANGED vars
  BY <1>7 DEF Consume, vars, Unseen, Visible
<1>8. CASE Close \/ Restart
  <2>1. /\ Visible' = EmptyTable /\ reply' \in {"none", reply} /\ clock' = clock
    BY <1>8 DEF Close, Restart, Unlocked, Visible
  <2>2. QED BY <2>1, SameOperators DEF Atomic!Next, Atomic!Lose
<1>9. QED BY <1>2, <1>3, <1>4, <1>5, <1>6, <1>7, <1>8 DEF Next

\* The store is the atomic store, for every set of offers, batches and filters: a call,
\* single or bulk, takes effect at one moment, all of it or none of it, with the table
\* and the reply that AtomicStore gives in closed form.
THEOREM ImplementsAtomic == Spec => AtomicSpec
<1>1. Init => Atomic!Init /\ IInv /\ LoopOK
  <2>1. Init => Atomic!Init BY SameOperators DEF Init, Atomic!Init, Visible
  <2>2. Init => LoopOK BY DEF Init, LoopOK
  <2>3. QED BY <2>1, <2>2, InitIInv
<1>2. IInv /\ LoopOK /\ [Next]_vars => IInv' /\ LoopOK' BY StepKeeps, LoopKeeps
<1>3. IInv /\ LoopOK /\ [Next]_vars => [Atomic!Next]_(Atomic!vars) BY StepImplements
<1>4. QED BY <1>1, <1>2, <1>3, PTL DEF Spec, AtomicSpec, Atomic!Spec
=============================================================================
