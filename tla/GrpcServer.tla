----------------------------- MODULE GrpcServer -----------------------------
(***************************************************************************)
(* store.GRPCServer over its store, as concurrent clients see it.          *)
(*                                                                         *)
(* A handler is one RPC in execution.  Every call it makes on the store is *)
(* one step of AtomicStore, the specification the store implements; what   *)
(* the module is about lies around those calls: the conversions of Wire    *)
(* before and after them, and what happens in between when                 *)
(* CreateOrUpdateMarginOffer looks the offer up and then creates or        *)
(* updates it, and BulkOverwriteMarginOffers counts what it will delete    *)
(* and then overwrites.  ListMarginOffers is in Listing.                   *)
(***************************************************************************)
EXTENDS Wire

CONSTANTS
    Handlers,     \* RPCs in execution at one time
    MaxClock      \* bound: no call stores anything from this time on

ASSUME GrpcAssumption ==
    /\ MaxClock \in Nat
    /\ None \notin Handlers

VARIABLES
    table,        \* the store's offers
    reply,        \* what the store's last call returned
    clock,        \* the store's time
    rpc           \* each handler's RPC: its request, progress and response

Store == INSTANCE AtomicStore

vars == <<table, reply, clock, rpc>>

-----------------------------------------------------------------------------
\* at: "idle", "open" (no store call made yet), "checked" (the first of two
\* store calls was made) or "done".  seen: what the first call returned.
\* code, failures, created, deleted: the response.  direct: the client is not
\* GRPCClient.  History: the entries it changed, how many it removed, whether
\* another RPC changed what it had looked at before its second store call, and
\* the entries others changed since it was done.
Singles == {"Create", "Update", "CreateOrUpdate"}
Bulks == {"BulkCreate", "BulkUpdate", "BulkDelete", "BulkCreateOrUpdate"}
Ops == Singles \union Bulks \union {"Delete", "BulkOverwrite"}
Codes == {"OK", "NotFound", "AlreadyExists", "InvalidArgument", "Internal", "Unavailable"}

Rpc == [op: Ops, direct: BOOLEAN, offer: Inputs \union Messages \union {None},
        id: Ids \union {None}, batch: Batches \union {<<>>}, filter: Filters \union {None},
        at: {"idle", "open", "checked", "done"}, seen: Nat, code: Codes,
        failures: BOOLEAN, created: BOOLEAN, deleted: Nat,
        changed: SUBSET Ids, removed: Nat, raced: BOOLEAN, overtaken: SUBSET Ids]

NoRpc == [op |-> "Delete", direct |-> FALSE, offer |-> None, id |-> None, batch |-> <<>>,
          filter |-> None, at |-> "idle", seen |-> 0, code |-> "OK", failures |-> FALSE,
          created |-> FALSE, deleted |-> 0,
          changed |-> {}, removed |-> 0, raced |-> FALSE, overtaken |-> {}]

TypeOK ==
    /\ table \in Table
    /\ reply \in {"none", "ok", "invalid", "exists", "missing"}
    /\ clock \in Nat
    /\ rpc \in [Handlers -> Rpc]

Init ==
    /\ Store!Init
    /\ rpc = [h \in Handlers |-> NoRpc]

At(h, op, place) == rpc[h].op = op /\ rpc[h].at = place

\* handleStoreError.  An offer Validate refuses keeps its ID in this model, so
\* its error is none of those the switch names.
Code(r) == CASE r = "ok" -> "OK"
             [] r = "missing" -> "NotFound"
             [] r = "exists" -> "AlreadyExists"
             [] r = "invalid" -> "Internal"

\* A step of h, and its history.
Changed == {id \in Ids : table'[id] # table[id]}
Cared(r) == IF r.op = "CreateOrUpdate" THEN {r.offer.id} ELSE Ids
Witness(r) ==
    CASE r.at = "checked" -> [r EXCEPT !.raced = @ \/ Changed \cap Cared(r) # {}]
      [] r.at = "done" -> [r EXCEPT !.overtaken = @ \union Changed]
      [] OTHER -> r
Step(h, r) ==
    rpc' = [g \in Handlers |-> IF g = h THEN [r EXCEPT !.changed = @ \union Changed]
                                       ELSE Witness(rpc[g])]

\* The handler makes its only, or its last, store call and responds.
Respond(h) == Step(h, [rpc[h] EXCEPT !.at = "done", !.code = Code(reply')])

\* What the handler passes to the store: what its client's message says.
Sent(h, o) == IF rpc[h].direct THEN o ELSE ToProto(o)
SentBatch(h) == [i \in DOMAIN rpc[h].batch |-> Sent(h, rpc[h].batch[i])]
SentFilter(h) == IF rpc[h].direct THEN rpc[h].filter ELSE ToProtoFilter(rpc[h].filter)

\* A client sends a request to a free handler; a request without offers, an
\* overwrite with neither offers nor filter, and one with an offer or a filter that
\* cannot be converted are refused on the spot.
Receive(h, r) ==
    LET offers == IF r.op \in Singles THEN {r.offer}
                  ELSE {r.batch[i] : i \in DOMAIN r.batch}
        refused == \/ r.op \in Bulks /\ r.batch = <<>>
                   \/ r.op = "BulkOverwrite" /\ r.batch = <<>> /\ r.filter = None
                   \/ r.op # "BulkDelete" /\ \E o \in offers : ~Convertible(o)
                   \/ r.op = "BulkOverwrite" /\ ~ConvertibleFilter(r.filter)
    IN  /\ rpc[h].at \in {"idle", "done"} /\ clock < MaxClock
        /\ rpc' = [rpc EXCEPT ![h] = IF refused
                     THEN [NoRpc EXCEPT !.op = r.op, !.at = "done",
                                        !.code = "InvalidArgument"]
                     ELSE [r EXCEPT !.at = "open"]]
        /\ UNCHANGED <<table, reply, clock>>

-----------------------------------------------------------------------------
\* One store call, and its error as the status of the RPC.
CreateMarginOffer(h) ==
    At(h, "Create", "open") /\ Store!Create(Sent(h, rpc[h].offer)) /\ Respond(h)
UpdateMarginOffer(h) ==
    At(h, "Update", "open") /\ Store!Update(Sent(h, rpc[h].offer)) /\ Respond(h)
DeleteMarginOffer(h) ==
    At(h, "Delete", "open") /\ Store!Delete(rpc[h].id) /\ Respond(h)

\* The bulk handlers answer a store error with a response that counts every
\* offer as failed, and status OK.
BulkRespond(h) ==
    Step(h, [rpc[h] EXCEPT !.at = "done", !.code = "OK", !.failures = reply' # "ok"])

BulkMarginOffers(h) ==
    LET b == SentBatch(h)
    IN  /\ rpc[h].at = "open"
        /\ \/ rpc[h].op = "BulkCreate" /\ Store!BulkCreate(b)
           \/ rpc[h].op = "BulkUpdate" /\ Store!BulkUpdate(b)
           \/ rpc[h].op = "BulkDelete" /\ Store!BulkDelete(b)
           \/ rpc[h].op = "BulkCreateOrUpdate" /\ Store!BulkCreateOrUpdate(b)
        /\ BulkRespond(h)

\* CreateOrUpdateMarginOffer: GetByID, then Create or Update.
Read(h, seen) ==
    /\ UNCHANGED <<table, reply, clock>>
    /\ Step(h, [rpc[h] EXCEPT !.at = "checked", !.seen = seen])

UpsertLookup(h) ==
    /\ At(h, "CreateOrUpdate", "open")
    /\ \/ Store!Present(rpc[h].offer.id) /\ Read(h, 1)
       \/ ~Store!Present(rpc[h].offer.id) /\ Read(h, 0)

\* A mutant of UpsertStore: after the lookup it calls Update whatever it found.
UpsertStoreUpdates(h) ==
    /\ At(h, "CreateOrUpdate", "checked")
    /\ Store!Update(Sent(h, rpc[h].offer)) /\ Respond(h)

\* A mutant of UpsertStore: the error of the second store call is ignored.
UpsertStoreIgnoresError(h) ==
    /\ At(h, "CreateOrUpdate", "checked")
    /\ \/ rpc[h].seen = 0 /\ Store!Create(Sent(h, rpc[h].offer))
       \/ rpc[h].seen = 1 /\ Store!Update(Sent(h, rpc[h].offer))
    /\ Step(h, [rpc[h] EXCEPT !.at = "done", !.code = "OK", !.created = rpc[h].seen = 0])

UpsertStore(h) ==
    /\ At(h, "CreateOrUpdate", "checked")
    /\ \/ rpc[h].seen = 0 /\ Store!Create(Sent(h, rpc[h].offer))
       \/ rpc[h].seen = 1 /\ Store!Update(Sent(h, rpc[h].offer))
    /\ Step(h, [rpc[h] EXCEPT !.at = "done", !.code = Code(reply'),
                              !.created = rpc[h].seen = 0 /\ reply' = "ok"])

\* BulkOverwriteMarginOffers: with a filter, GetOverwriteStats and then
\* BulkOverwriteByFilter; without one, BulkOverwrite and a count of 0.
OverwriteStats(h) ==
    /\ At(h, "BulkOverwrite", "open") /\ rpc[h].filter # None
    /\ Read(h, Cardinality(OffersToDelete(table, SentFilter(h))))

\* A mutant of Overwrite: the count of deletions is taken as the entries the
\* overwrite leaves without an offer.
OverwriteCountsGone(h) ==
    /\ At(h, "BulkOverwrite", IF rpc[h].filter = None THEN "open" ELSE "checked")
    /\ Store!BulkOverwrite(SentBatch(h), SentFilter(h))
    /\ Step(h, [rpc[h] EXCEPT !.at = "done", !.code = Code(reply'),
                  !.deleted = Cardinality({id \in Ids : table[id] # None /\ table'[id] = None}),
                  !.removed = Cardinality(OffersToDelete(table, SentFilter(h)))])

Overwrite(h) ==
    /\ At(h, "BulkOverwrite", IF rpc[h].filter = None THEN "open" ELSE "checked")
    /\ Store!BulkOverwrite(SentBatch(h), SentFilter(h))
    /\ Step(h, [rpc[h] EXCEPT !.at = "done", !.code = Code(reply'),
                  !.deleted = IF reply' = "ok" THEN rpc[h].seen ELSE 0,
                  !.removed = Cardinality(OffersToDelete(table, SentFilter(h)))])

\* The server process ends and is started again with an empty store: every
\* RPC in execution fails at its client.
Restart ==
    /\ Store!Lose
    /\ rpc' = [h \in Handlers |->
                 IF rpc[h].at \in {"open", "checked"}
                 THEN [rpc[h] EXCEPT !.at = "done", !.code = "Unavailable"] ELSE Witness(rpc[h])]

Requests(h) ==
    \/ \E op \in Singles :
          \/ \E o \in Inputs : Receive(h, [NoRpc EXCEPT !.op = op, !.offer = o])
          \/ \E p \in Messages :
                Receive(h, [NoRpc EXCEPT !.op = op, !.direct = TRUE, !.offer = p])
    \/ \E op \in Bulks, b \in Batches : Receive(h, [NoRpc EXCEPT !.op = op, !.batch = b])
    \/ \E id \in Ids : Receive(h, [NoRpc EXCEPT !.op = "Delete", !.id = id])
    \/ \E b \in Batches, f \in Filters :
          Receive(h, [NoRpc EXCEPT !.op = "BulkOverwrite", !.batch = b, !.filter = f])
    \/ \E b \in Batches :
          Receive(h, [NoRpc EXCEPT !.op = "BulkOverwrite", !.batch = b, !.direct = TRUE])

Next ==
    \/ \E h \in Handlers :
          \/ Requests(h)
          \/ CreateMarginOffer(h) \/ UpdateMarginOffer(h) \/ DeleteMarginOffer(h)
          \/ BulkMarginOffers(h) \/ UpsertLookup(h) \/ UpsertStore(h)
          \/ OverwriteStats(h) \/ Overwrite(h)
    \/ Restart

Spec == Init /\ [][Next]_vars

-----------------------------------------------------------------------------
Done(h) == rpc[h].at = "done"
Failed(r) == r.code # "OK" \/ r.failures

\* What a successful RPC leaves at an entry: the offer as its client gave it, the
\* timestamps aside, and for GRPCClient's callers as GetByID would return it.
Kept(r, o) == IF r.direct THEN o ELSE Returned(o)
Same(r, stored, o) ==
    /\ stored # None
    /\ Kept(r, stored) = Stamped(Kept(r, o), stored.created, stored.updated)
Left(r, id, stored) ==
    CASE r.op \in Singles /\ id = r.offer.id -> Same(r, stored, r.offer)
      [] r.op = "Delete" /\ id = r.id -> stored = None
      [] r.op = "BulkDelete" /\ id \in BatchIds(r.batch) -> stored = None
      [] r.op \in (Bulks \ {"BulkDelete"}) \union {"BulkOverwrite"}
           /\ id \in BatchIds(r.batch) -> Same(r, stored, Store!Last(r.batch, id))
      [] r.op = "BulkOverwrite" /\ id \notin BatchIds(r.batch) ->
            stored # None => r.filter # None /\ ~MatchesOverwriteFilter(stored, r.filter)
      [] OTHER -> id \notin r.changed

\* No offer is stored whose type the server does not know, whoever sent it, alone
\* or in a batch: GRPCClient sends any string.
OnlyKnownStored == \A id \in Ids : table[id] # None => table[id].type \in KnownTypes

\* The state has its type, and the store holds nothing that cannot be asked for.
GrpcInv == TypeOK /\ OnlyKnownStored

\* An RPC that reports a failure, by its status or by its failure count, left
\* nothing behind; what a successful one promised is in the table until another
\* RPC changes that entry, and entries it does not name are as they were.
OutcomeMatchesReport ==
    \A h \in Handlers :
        Done(h) => IF Failed(rpc[h]) THEN rpc[h].changed = {}
                   ELSE \A id \in Ids \ rpc[h].overtaken : Left(rpc[h], id, table[id])

\* An upsert is answered AlreadyExists or NotFound only when another RPC
\* changed its offer between the lookup and the store call.
UpsertFailsOnlyInRace ==
    \A h \in Handlers :
        Done(h) /\ rpc[h].op = "CreateOrUpdate" /\ rpc[h].code \in {"AlreadyExists", "NotFound"}
            => rpc[h].raced

\* The deletions a filtered overwrite reports are those it made unless another
\* RPC changed the store after it counted.
DeletionsCounted ==
    \A h \in Handlers :
        (Done(h) /\ rpc[h].op = "BulkOverwrite" /\ rpc[h].code = "OK"
           /\ rpc[h].filter # None /\ ~rpc[h].raced)
            => rpc[h].deleted = rpc[h].removed

\* GRPCClient's bulk methods return the status of the RPC and look at nothing
\* else: a bulk call the store refused is an error to the Go caller.
ClientError(r) == r.code # "OK"
BulkFailureIsAnError ==
    \A h \in Handlers : Done(h) /\ rpc[h].failures => ClientError(rpc[h])

\* An upsert of a stored offer keeps its creation time, through gRPC as in the
\* store's own CreateOrUpdate ("Preserve original creation timestamp").
UpsertKeepsCreation ==
    [][\A h \in Handlers :
         (UpsertStore(h) /\ rpc[h].seen = 1 /\ rpc'[h].code = "OK")
            => LET id == rpc[h].offer.id IN table'[id].created = table[id].created]_vars
=============================================================================
