---------------------------- MODULE MemoryStore ----------------------------
(***************************************************************************)
(* store.MemoryStore: the map of offers, its three secondary indexes and   *)
(* the event channel of the notification service, under one write lock.    *)
(*                                                                         *)
(* A single-offer call holds the lock from its existence check to its      *)
(* return and is one step.  A bulk call takes the lock in a Begin step,    *)
(* then one step per iteration of its loop, so that a repeated ID in a     *)
(* batch, a panic half-way and the reader's view are what the loop makes   *)
(* them; `call` is that call's frame, None while nobody holds the lock.    *)
(***************************************************************************)
EXTENDS Offers

CONSTANTS
    IndexesMade,  \* does NewMemoryStore make the three index maps?  FALSE as
                  \* committed; TRUE if it made all its maps; or either
    EventCap,     \* capacity of notificationService.eventChan
    MaxClock      \* bound: no call stores anything from this time on

ASSUME BoundAssumption ==
    /\ IndexesMade # {} /\ IndexesMade \subseteq BOOLEAN
    /\ EventCap \in Nat \ {0}
    /\ MaxClock \in Nat \ {0}

VARIABLES
    offers,       \* ms.offers
    index,        \* how often each list of the three indexes holds each ID
    offersMade,   \* ms.offers is not the nil map
    indexesMade,  \* the index maps are not nil
    events,       \* notificationService.eventChan
    call,         \* the bulk call that holds ms.mu, or None
    reply,        \* what the last call to return returned
    clock,        \* time.Now(): advanced by every call that stores
    panicked,     \* a handler wrote to a nil map and took the process down
    dirty         \* history: IDs some bulk call mentioned in a way that may
                  \* leave index entries behind (see BeginBulkUpdate)

vars == <<offers, index, offersMade, indexesMade, events, call, reply,
          clock, panicked, dirty>>

-----------------------------------------------------------------------------
\* Index keys: lenderIndex, tokenIndex and offerTypeIndex in one function.
Keys == ({"lender"} \X Lenders)
          \union ({"token"} \X (Tokens \X Tokens))
          \union ({"type"} \X Types)

KeysOf(o) == {<<"token", <<o.collateral, o.borrow>>>>, <<"type", o.type>>}
               \union {<<"lender", l>> : l \in {o.lender} \ {None}}

EmptyIndex == [k \in Keys |-> [id \in Ids |-> 0]]

\* addToIndexes appends the ID to each list, present or not.
AddToIndexes(idx, o) ==
    [k \in Keys |-> IF k \in KeysOf(o) THEN [idx[k] EXCEPT ![o.id] = @ + 1]
                                       ELSE idx[k]]

\* Mutants of RemoveFromIndexes: the list is shortened whether or not it holds
\* the ID; the whole list is deleted, without the check that it became empty.
RemoveUnlisted(idx, o) ==
    [k \in Keys |-> IF k \in KeysOf(o) THEN [idx[k] EXCEPT ![o.id] = @ - 1] ELSE idx[k]]
RemoveWholeList(idx, o) ==
    [k \in Keys |-> IF k \in KeysOf(o) THEN [id \in Ids |-> 0] ELSE idx[k]]

\* removeFromIndexes drops the first occurrence in each list, if any.
RemoveFromIndexes(idx, o) ==
    [k \in Keys |-> IF k \in KeysOf(o) /\ idx[k][o.id] > 0
                    THEN [idx[k] EXCEPT ![o.id] = @ - 1]
                    ELSE idx[k]]

\* The deletions of an overwrite: distinct IDs, so the loop's order is moot.
RemoveAllFromIndexes(idx, table, ids) ==
    [k \in Keys |-> [id \in Ids |->
        IF id \in ids /\ k \in KeysOf(table[id]) /\ idx[k][id] > 0
        THEN idx[k][id] - 1 ELSE idx[k][id]]]

-----------------------------------------------------------------------------
ChangeTypes == {"created", "updated", "overwritten"}
Event == [type: ChangeTypes, id: Ids]
Replies == {"none", "ok", "invalid", "exists", "missing"}
BulkOps == {"BulkCreate", "BulkUpdate", "BulkDelete", "BulkCreateOrUpdate",
            "BulkOverwrite"}

\* pos: next iteration; old: the table when the lock was taken (BulkUpdate's
\* oldOffers and BulkDelete's offersToDelete are this table at the batch's IDs).
Call == [op: BulkOps, batch: Batches, filter: Filters \union {None},
         pos: Nat, now: Nat, old: Table]

ASSUME CallFrame == None \notin Call

TypeOK ==
    /\ offers \in Table
    /\ index \in [Keys -> [Ids -> Nat]]
    /\ offersMade \in BOOLEAN
    /\ indexesMade \in BOOLEAN
    /\ events \in Seq(Event)
    /\ call \in Call \union {None}
    /\ reply \in Replies
    /\ clock \in Nat
    /\ panicked \in BOOLEAN
    /\ dirty \subseteq Ids

\* NewMemoryStore.  As committed it makes only the offers map.
Init ==
    /\ offers = EmptyTable
    /\ index = EmptyIndex
    /\ offersMade = TRUE
    /\ indexesMade \in IndexesMade
    /\ events = <<>>
    /\ call = None
    /\ reply = "none"
    /\ clock = 1
    /\ panicked = FALSE
    /\ dirty = {}

-----------------------------------------------------------------------------
Has(id) == offers[id] # None
Writable == offersMade /\ indexesMade
Unlocked == call = None /\ ~panicked
MayStore == clock < MaxClock

\* NotifyChange: a send that gives up when the channel is full.
Notify(e) ==
    events' = IF Len(events) < EventCap THEN Append(events, e) ELSE events

\* A call that returns an error, or has nothing to do, changes nothing.
Return(r) ==
    /\ reply' = r
    /\ UNCHANGED <<offers, index, offersMade, indexesMade, events, call, clock,
                   panicked, dirty>>

\* An assignment to an entry of a nil map, in a handler nothing recovers.
Panic ==
    /\ panicked' = TRUE
    /\ UNCHANGED <<offers, index, offersMade, indexesMade, events, call, reply,
                   clock, dirty>>

StoreOne(o, idx) ==
    /\ offers' = [offers EXCEPT ![o.id] = o]
    /\ index' = AddToIndexes(idx, o)
    /\ reply' = "ok"
    /\ clock' = clock + 1
    /\ UNCHANGED <<offersMade, indexesMade, call, panicked, dirty>>

Create(o) ==
    /\ Unlocked
    /\ \/ ~o.valid /\ Return("invalid")
       \/ o.valid /\ Has(o.id) /\ Return("exists")
       \/ o.valid /\ ~Has(o.id) /\ ~Writable /\ Panic
       \/ /\ o.valid /\ ~Has(o.id) /\ Writable /\ MayStore
          /\ StoreOne(Stamped(o, clock, clock), index)
          /\ Notify([type |-> "created", id |-> o.id])

\* The caller's CreatedTimestamp is stored as it came.
Update(o) ==
    /\ Unlocked
    /\ \/ ~o.valid /\ Return("invalid")
       \/ o.valid /\ ~Has(o.id) /\ Return("missing")
       \/ /\ o.valid /\ Has(o.id) /\ MayStore
          /\ StoreOne(Stamped(o, o.created, clock),
                      RemoveFromIndexes(index, offers[o.id]))
          /\ Notify([type |-> "updated", id |-> o.id])

\* No event is sent.
Delete(id) ==
    /\ Unlocked
    /\ \/ ~Has(id) /\ Return("missing")
       \/ /\ Has(id)
          /\ index' = RemoveFromIndexes(index, offers[id])
          /\ offers' = [offers EXCEPT ![id] = None]
          /\ reply' = "ok"
          /\ UNCHANGED <<offersMade, indexesMade, events, call, clock, panicked, dirty>>

-----------------------------------------------------------------------------
\* Mutants: an upsert takes the caller's creation time over the stored one; an
\* upsert leaves the old offer's index entries.
UpsertedFromCaller(o, now) == Stamped(o, CreatedOr(o, now), now)
IndexWithNothingRemoved(id) == index

\* createOrUpdateInternal, on the table and index as they are now.
Upserted(o, now) ==
    IF Has(o.id) THEN Stamped(o, offers[o.id].created, now)
                 ELSE Stamped(o, CreatedOr(o, now), now)
IndexWithout(id) ==
    IF Has(id) THEN RemoveFromIndexes(index, offers[id]) ELSE index

\* No event is sent.
CreateOrUpdate(o) ==
    /\ Unlocked
    /\ \/ ~o.valid /\ Return("invalid")
       \/ o.valid /\ ~Writable /\ Panic
       \/ /\ o.valid /\ Writable /\ MayStore
          /\ StoreOne(Upserted(o, clock), IndexWithout(o.id))
          /\ UNCHANGED events

-----------------------------------------------------------------------------
\* The bulk calls.

Begin(op, b, f) ==
    /\ call' = [op |-> op, batch |-> b, filter |-> f, pos |-> 1,
                now |-> clock, old |-> offers]
    /\ UNCHANGED <<offersMade, indexesMade, events, reply, clock, panicked>>

Running(op) == ~panicked /\ call # None /\ call.op = op
InLoop == call.pos \in DOMAIN call.batch
Current == call.batch[call.pos]
NextIteration ==
    /\ call' = [call EXCEPT !.pos = @ + 1]
    /\ UNCHANGED <<offersMade, indexesMade, reply, clock, panicked, dirty>>

\* Mutant: the batch is not searched for repeated IDs.
BeginBulkCreateUnchecked(b) ==
    /\ Unlocked
    /\ \/ b = <<>> /\ Return("ok")
       \/ ~AllValid(b) /\ Return("invalid")
       \/ AllValid(b) /\ (\E id \in BatchIds(b) : Has(id)) /\ Return("exists")
       \/ /\ b # <<>> /\ AllValid(b) /\ Writable /\ MayStore
          /\ \A id \in BatchIds(b) : ~Has(id)
          /\ Begin("BulkCreate", b, None)
          /\ UNCHANGED <<offers, index, dirty>>

\* The offer at which BulkCreate's loop of checks ends: Validate refuses it, or
\* a later one has its ID.
Wrong(b, i) == ~b[i].valid \/ \E j \in (i+1)..Len(b) : b[j].id = b[i].id

BeginBulkCreate(b) ==
    /\ Unlocked
    /\ \/ b = <<>> /\ Return("ok")
       \/ \E i \in DOMAIN b :
             /\ Wrong(b, i) /\ \A j \in 1..(i-1) : ~Wrong(b, j)
             /\ Return(IF b[i].valid THEN "exists" ELSE "invalid")
       \/ /\ AllValid(b) /\ Repeated(b) = {}
          /\ \E id \in BatchIds(b) : Has(id)
          /\ Return("exists")
       \/ /\ b # <<>> /\ AllValid(b) /\ Repeated(b) = {}
          /\ \A id \in BatchIds(b) : ~Has(id)
          /\ \/ ~Writable /\ Panic
             \/ /\ Writable /\ MayStore
                /\ Begin("BulkCreate", b, None)
                /\ UNCHANGED <<offers, index, dirty>>

BulkCreateStep ==
    /\ Running("BulkCreate") /\ InLoop
    /\ LET o == Stamped(Current, call.now, call.now)
       IN  /\ offers' = [offers EXCEPT ![o.id] = o]
           /\ index' = AddToIndexes(index, o)
    /\ NextIteration
    /\ UNCHANGED events

\* The old offers are looked up before the loop: when an ID occurs twice, its
\* second iteration takes the original's entries out again and leaves those
\* the first iteration put in.  Such an ID is recorded as dirty.
BeginBulkUpdate(b) ==
    /\ Unlocked
    /\ \/ b = <<>> /\ Return("ok")
       \/ ~AllValid(b) /\ Return("invalid")
       \/ /\ AllValid(b)
          /\ \E id \in BatchIds(b) : ~Has(id)
          /\ Return("missing")
       \/ /\ b # <<>> /\ AllValid(b) /\ MayStore
          /\ \A id \in BatchIds(b) : Has(id)
          /\ Begin("BulkUpdate", b, None)
          /\ dirty' = dirty \union Repeated(b)
          /\ UNCHANGED <<offers, index>>

BulkUpdateStep ==
    /\ Running("BulkUpdate") /\ InLoop
    /\ LET was == call.old[Current.id]
           o == Stamped(Current, was.created, call.now)
       IN  /\ offers' = [offers EXCEPT ![o.id] = o]
           /\ index' = AddToIndexes(RemoveFromIndexes(index, was), o)
    /\ NextIteration
    /\ UNCHANGED events

\* ids: a batch read for its IDs only.
BeginBulkDelete(ids) ==
    /\ Unlocked
    /\ \/ ids = <<>> /\ Return("ok")
       \/ (\E id \in BatchIds(ids) : ~Has(id)) /\ Return("missing")
       \/ /\ ids # <<>>
          /\ \A id \in BatchIds(ids) : Has(id)
          /\ Begin("BulkDelete", ids, None)
          /\ UNCHANGED <<offers, index, dirty>>

BulkDeleteStep ==
    /\ Running("BulkDelete") /\ InLoop
    /\ index' = RemoveFromIndexes(index, call.old[Current.id])
    /\ offers' = [offers EXCEPT ![Current.id] = None]
    /\ NextIteration
    /\ UNCHANGED events

BeginBulkCreateOrUpdate(b) ==
    /\ Unlocked
    /\ \/ b = <<>> /\ Return("ok")
       \/ ~AllValid(b) /\ Return("invalid")
       \/ b # <<>> /\ AllValid(b) /\ ~Writable /\ Panic
       \/ /\ b # <<>> /\ AllValid(b) /\ Writable /\ MayStore
          /\ Begin("BulkCreateOrUpdate", b, None)
          /\ UNCHANGED <<offers, index, dirty>>

BulkCreateOrUpdateStep ==
    /\ Running("BulkCreateOrUpdate") /\ InLoop
    /\ LET o == Upserted(Current, call.now)
       IN  /\ offers' = [offers EXCEPT ![o.id] = o]
           /\ index' = AddToIndexes(IndexWithout(o.id), o)
    /\ NextIteration
    /\ UNCHANGED events

\* BulkOverwriteByFilter, and BulkOverwrite with f = None: the selected offers
\* go first.  The insertions look at neither the table nor the indexes, so an
\* inserted ID that survived the filter, or occurs twice, is dirty.
BeginBulkOverwrite(b, f) ==
    /\ Unlocked
    /\ \/ ~AllValid(b) /\ Return("invalid")
       \/ AllValid(b) /\ b # <<>> /\ ~Writable /\ Panic
       \/ /\ AllValid(b) /\ (b # <<>> => Writable) /\ MayStore
          /\ LET gone == OffersToDelete(offers, f)
             IN  /\ offers' = [id \in Ids |-> IF id \in gone THEN None ELSE offers[id]]
                 /\ index' = RemoveAllFromIndexes(index, offers, gone)
                 /\ dirty' = dirty \union Repeated(b)
                               \union {id \in BatchIds(b) : Has(id) /\ id \notin gone}
          /\ Begin("BulkOverwrite", b, f)

BulkOverwriteStep ==
    /\ Running("BulkOverwrite") /\ InLoop
    /\ LET o == Stamped(Current, CreatedOr(Current, call.now), call.now)
       IN  /\ offers' = [offers EXCEPT ![o.id] = o]
           /\ index' = AddToIndexes(index, o)
    /\ NextIteration
    /\ UNCHANGED events

\* The second loop: one event per inserted offer, still under the lock.
InNotifyLoop == call.pos - Len(call.batch) \in DOMAIN call.batch
BulkOverwriteNotify ==
    /\ Running("BulkOverwrite") /\ ~InLoop /\ InNotifyLoop
    /\ Notify([type |-> "overwritten",
               id |-> call.batch[call.pos - Len(call.batch)].id])
    /\ NextIteration
    /\ UNCHANGED <<offers, index>>

BulkReturn ==
    /\ ~panicked /\ call # None /\ ~InLoop
    /\ call.op = "BulkOverwrite" => ~InNotifyLoop
    /\ call' = None
    /\ reply' = "ok"
    /\ clock' = IF call.op = "BulkDelete" THEN clock ELSE clock + 1
    /\ UNCHANGED <<offers, index, offersMade, indexesMade, events, panicked, dirty>>

-----------------------------------------------------------------------------
\* The notification service's eventProcessor takes the oldest event.
Consume ==
    /\ ~panicked /\ events # <<>>
    /\ events' = Tail(events)
    /\ UNCHANGED <<offers, index, offersMade, indexesMade, call, reply, clock,
                   panicked, dirty>>

\* Close drops all four maps; calls may still arrive.
Close ==
    /\ Unlocked
    /\ offers' = EmptyTable
    /\ index' = EmptyIndex
    /\ offersMade' = FALSE
    /\ indexesMade' = FALSE
    /\ dirty' = {}
    /\ UNCHANGED <<events, call, reply, clock, panicked>>

\* The container is started again after the process ended; nothing was saved.
Restart ==
    /\ panicked \/ ~offersMade
    /\ offers' = EmptyTable
    /\ index' = EmptyIndex
    /\ offersMade' = TRUE
    /\ indexesMade' \in IndexesMade
    /\ events' = <<>>
    /\ call' = None
    /\ reply' = "none"
    /\ panicked' = FALSE
    /\ dirty' = {}
    /\ UNCHANGED clock

Next ==
    \/ \E o \in Inputs : Create(o) \/ Update(o) \/ CreateOrUpdate(o)
    \/ \E id \in Ids : Delete(id)
    \/ \E b \in Batches : \/ BeginBulkCreate(b)
                          \/ BeginBulkUpdate(b)
                          \/ BeginBulkDelete(b)
                          \/ BeginBulkCreateOrUpdate(b)
                          \/ \E f \in Filters : BeginBulkOverwrite(b, f)
    \/ BulkCreateStep \/ BulkUpdateStep \/ BulkDeleteStep
    \/ BulkCreateOrUpdateStep \/ BulkOverwriteStep
    \/ BulkOverwriteNotify \/ BulkReturn
    \/ Consume \/ Close \/ Restart

Spec == Init /\ [][Next]_vars

-----------------------------------------------------------------------------
\* What a reader can see: readers wait for the lock, so while a bulk call is at
\* work they are where the table was when it started.
Visible == IF call = None THEN offers ELSE call.old

\* The store is the atomic store: each call takes effect at one step, all of it
\* or none of it, with the result AtomicStore gives in closed form.
Atomic == INSTANCE AtomicStore WITH table <- Visible
AtomicSpec == Atomic!Spec

-----------------------------------------------------------------------------
\* Every stored offer is listed, under its own ID, in every index list its
\* current fields call for, whatever IDs a batch repeats and whatever a filter
\* leaves behind: no query through an index misses an offer.  Between the
\* iterations of a bulk call too.
IndexComplete ==
    \A id \in Ids : offers[id] # None =>
        \A k \in KeysOf(offers[id]) : index[k][id] > 0

\* The indexes hold nothing else, and nothing twice, for every ID that no
\* BulkUpdate repeated and no overwrite inserted beside a survivor or twice.
\* Repeats in the other bulk calls do no harm.
IndexExact ==
    \A id \in Ids \ dirty : \A k \in Keys :
        index[k][id] = IF offers[id] # None /\ k \in KeysOf(offers[id])
                       THEN 1 ELSE 0

\* What a bulk loop may rely on at each iteration, its checks having been made
\* once, before it: the IDs still to come are absent (BulkCreate), unchanged
\* since the lock was taken (BulkUpdate), or gone with the victims
\* (BulkOverwrite), unless a repeat or a survivor made them dirty.
ToCome == {call.batch[i].id : i \in {j \in DOMAIN call.batch : j >= call.pos}}
FrameOK ==
    call # None =>
        /\ call.op # "BulkDelete" => AllValid(call.batch)
        /\ call.op = "BulkCreate" =>
               /\ Repeated(call.batch) = {}
               /\ \A id \in ToCome : offers[id] = None
        /\ call.op = "BulkUpdate" =>
               /\ Repeated(call.batch) \subseteq dirty
               /\ \A id \in BatchIds(call.batch) : call.old[id] # None
               /\ \A id \in ToCome \ dirty : offers[id] = call.old[id]
        /\ call.op = "BulkDelete" =>
               \A id \in BatchIds(call.batch) :
                  /\ call.old[id] # None
                  /\ offers[id] \in {None, call.old[id]}
        /\ call.op = "BulkOverwrite" =>
               /\ Repeated(call.batch) \subseteq dirty
               /\ \A id \in ToCome \ dirty : offers[id] = None

\* Validation covers the whole batch before anything is stored: no call can
\* leave an offer in the store that Validate rejects.
OnlyValidStored == \A id \in Ids : offers[id] # None => offers[id].valid

\* "Create adds a new margin offer to the store": no write on an open store meets
\* a nil map.  Not so with the constructor as committed.
NoPanicWhileOpen == panicked => ~offersMade

\* An overwrite restricted to one Source takes no other source's offer away
\* ("Only affect MarginFi offers").
OverwriteSparesOtherSources ==
    [][\A id \in Ids :
          (/\ call = None /\ call' # None
           /\ call'.op = "BulkOverwrite"
           /\ call'.filter # None /\ call'.filter.source # None
           /\ offers[id] # None /\ offers'[id] = None)
          => offers[id].source = call'.filter.source]_vars
=============================================================================
