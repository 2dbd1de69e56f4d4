----------------------------- MODULE ChangeFeed -----------------------------
(***************************************************************************)
(* The store process as its subscribers see it: the writes of the store,   *)
(* the changes they announce, the streams that carry them, and the         *)
(* shutdown of the process (cmd/store/main.go).                            *)
(*                                                                         *)
(* The goroutines inside the notification service are Notification's; here *)
(* an event, a heartbeat and a cleanup reach all subscriptions in one      *)
(* step.  A call that writes holds the store's lock until it has announced *)
(* its changes (announcing).  Offers are numbered as they are stored.      *)
(* The clients keep a copy of the table: they subscribe, list, and apply   *)
(* what their stream brings.  A stream whose subscription the cleanup has  *)
(* removed stays open: what it sends after that, once its channel is       *)
(* empty, tells the client nothing, and is left out.                       *)
(***************************************************************************)
EXTENDS Naturals, Sequences

CONSTANTS
    Ids,
    Subs,         \* subscriptions; each is used by one stream
    Wanted,       \* the types of change each asked for
    None,         \* no offer, no copy, no ID
    EventCap,     \* capacity of ns.eventChan
    ChanCap,      \* capacity of Subscription.Channel
    IdleRounds,   \* heartbeats in the hour after which the cleanup removes one
    MaxOffers     \* bound: offers stored

ChangeTypes == {"created", "updated", "deleted", "overwritten"}

ASSUME ChangeFeedAssumption ==
    /\ Wanted \in [Subs -> SUBSET ChangeTypes]
    /\ EventCap \in Nat \ {0} /\ ChanCap \in Nat \ {0}
    /\ IdleRounds \in Nat \ {0} /\ MaxOffers \in Nat
    /\ None \notin Nat \union Ids

VARIABLES
    table,        \* ms.offers
    last,         \* the number of the last offer stored
    announcing,   \* the changes the call that holds the lock has yet to announce
    eventChan,    \* ns.eventChan
    registered,   \* ns.subscriptions
    missed,       \* heartbeats since each subscription's LastActivity
    open,         \* the streams there are
    gone,         \* those whose client left
    chan,         \* Subscription.Channel
    copy,         \* each client's copy of the table; None before it listed
    process,      \* "serving", "stopping" (in GracefulStop) or "ended"
    silent,       \* history: IDs whose last change was not announced
    unsent        \* history: for each subscription the IDs whose last announced
                  \* change a filter, a full channel or the cleanup kept from it

storeVars == <<table, last, announcing, silent>>
feedVars == <<eventChan, unsent>>
subVars == <<registered, missed>>
streamVars == <<open, gone, chan, copy>>
vars == <<storeVars, feedVars, subVars, streamVars, process>>

Offers == 1..MaxOffers
Tables == [Ids -> Offers \union {None}]
Events == [type : ChangeTypes, id : Ids, offer : Offers]
Beat == [type |-> "heartbeat", id |-> None, offer |-> None]
Messages == Events \union {Beat}

\* Types; a subscription's stream is open, an open one is not left by its client; the
\* process ends without streams.
TypeOK ==
    /\ table \in Tables /\ last \in 0..MaxOffers
    /\ announcing \in Seq(Events)
    /\ eventChan \in Seq(Events) /\ Len(eventChan) <= EventCap
    /\ registered \subseteq open /\ missed \in [Subs -> 0..IdleRounds]
    /\ open \subseteq Subs /\ gone \subseteq Subs /\ open \intersect gone = {}
    /\ chan \in [Subs -> Seq(Messages)] /\ \A s \in Subs : Len(chan[s]) <= ChanCap
    /\ copy \in [Subs -> Tables \union {None}]
    /\ process \in {"serving", "stopping", "ended"}
    /\ process = "ended" => open = {} /\ announcing = <<>>
    /\ silent \subseteq Ids /\ unsent \in [Subs -> SUBSET Ids]

Init ==
    /\ table = [i \in Ids |-> None] /\ last = 0 /\ announcing = <<>> /\ silent = {}
    /\ eventChan = <<>> /\ unsent = [s \in Subs |-> {}]
    /\ registered = {} /\ missed = [s \in Subs |-> 0]
    /\ open = {} /\ gone = {}
    /\ chan = [s \in Subs |-> <<>>] /\ copy = [s \in Subs |-> None]
    /\ process = "serving"

-----------------------------------------------------------------------------
\* A call is served, and may take the store's lock.  While the process stops those
\* that were accepted before are, however many; GracefulStop waits for them.
Served == process # "ended" /\ announcing = <<>>

Stored == {i \in Ids : table[i] # None}
Event(type, i, o) == [type |-> type, id |-> i, offer |-> o]
New(k) == last + k

\* A call's change of the table, with n new offers.
Write(newTable, n, events, unannounced) ==
    /\ Served /\ New(n) <= MaxOffers
    /\ table' = newTable /\ last' = New(n) /\ announcing' = events
    /\ silent' = (silent \union unannounced) \ {events[k].id : k \in DOMAIN events}
    /\ UNCHANGED <<feedVars, subVars, streamVars, process>>

Create(i) ==
    /\ table[i] = None
    /\ Write([table EXCEPT ![i] = New(1)], 1, <<Event("created", i, New(1))>>, {})

Update(i) ==
    /\ table[i] # None
    /\ Write([table EXCEPT ![i] = New(1)], 1, <<Event("updated", i, New(1))>>, {})

\* Delete and BulkDelete announce nothing.
Delete(ids) ==
    /\ ids # {} /\ ids \subseteq Stored
    /\ Write([i \in Ids |-> IF i \in ids THEN None ELSE table[i]], 0, <<>>, ids)

\* Nor do BulkCreate, BulkUpdate and BulkCreateOrUpdate; one number for all of the
\* batch will do.
BulkStore(ids) ==
    /\ ids # {}
    /\ Write([i \in Ids |-> IF i \in ids THEN New(1) ELSE table[i]], 1, <<>>, ids)

\* Batches, which may have an ID twice; and where one has it last.
Batches == {<<>>} \union {<<i>> : i \in Ids} \union (Ids \X Ids)
LastOf(batch, i) ==
    CHOOSE k \in DOMAIN batch : batch[k] = i /\ \A m \in DOMAIN batch : m > k => batch[m] # i

\* BulkOverwriteByFilter: the offers the filter selects go, which nothing announces,
\* and those of the batch are stored in its order, and announced in it.
BulkOverwrite(selected, batch) ==
    /\ selected \subseteq Stored
    /\ Write([i \in Ids |-> IF \E k \in DOMAIN batch : batch[k] = i THEN New(LastOf(batch, i))
                            ELSE IF i \in selected THEN None ELSE table[i]],
             Len(batch),
             [k \in DOMAIN batch |-> Event("overwritten", batch[k], New(k))],
             selected)

\* A mutant of NotifyChange: a full channel gives up its oldest event.
NotifyChangeDropsOldest ==
    /\ announcing # <<>> /\ announcing' = Tail(announcing)
    /\ eventChan' = Append(IF Len(eventChan) < EventCap THEN eventChan ELSE Tail(eventChan),
                           Head(announcing))
    /\ UNCHANGED <<table, last, silent, unsent, subVars, streamVars, process>>

\* NotifyChange: a full channel drops the change for every subscription.
NotifyChange ==
    /\ announcing # <<>> /\ announcing' = Tail(announcing)
    /\ IF Len(eventChan) < EventCap
       THEN eventChan' = Append(eventChan, Head(announcing)) /\ UNCHANGED unsent
       ELSE /\ unsent' = [s \in Subs |-> unsent[s] \union {Head(announcing).id}]
            /\ UNCHANGED eventChan
    /\ UNCHANGED <<table, last, silent, subVars, streamVars, process>>

-----------------------------------------------------------------------------
\* matchesSubscription: the type of change, and fields of the offer, which
\* Notification has.
Matches(e, s) == e.type \in Wanted[s]

\* processChangeEvent.
ProcessChangeEvent ==
    /\ eventChan # <<>> /\ eventChan' = Tail(eventChan)
    /\ LET e == Head(eventChan)
           takers == {s \in registered : Matches(e, s) /\ Len(chan[s]) < ChanCap}
       IN  /\ chan' = [s \in Subs |-> IF s \in takers THEN Append(chan[s], e) ELSE chan[s]]
           /\ missed' = [s \in Subs |-> IF s \in takers THEN 0 ELSE missed[s]]
           /\ unsent' = [s \in Subs |-> IF s \notin takers THEN unsent[s] \union {e.id}
                                        ELSE IF e.offer = table[e.id] THEN unsent[s] \ {e.id}
                                        ELSE unsent[s]]
    /\ UNCHANGED <<storeVars, registered, open, gone, copy, process>>

\* sendHeartbeats: to the subscriptions whose channels have room.
Heartbeat ==
    /\ registered # {}
    /\ LET takers == {s \in registered : Len(chan[s]) < ChanCap}
       IN  /\ chan' = [s \in Subs |-> IF s \in takers THEN Append(chan[s], Beat) ELSE chan[s]]
           /\ missed' = [s \in Subs |-> IF s \in registered \ takers /\ missed[s] < IdleRounds
                                        THEN missed[s] + 1
                                        ELSE IF s \in takers THEN 0 ELSE missed[s]]
    /\ UNCHANGED <<storeVars, feedVars, registered, open, gone, copy, process>>

\* cleanupInactiveSubscriptions: the channel is closed, and keeps what it holds.
CleanupInactive ==
    LET inactive == {s \in registered : missed[s] = IdleRounds}
    IN  /\ inactive # {} /\ registered' = registered \ inactive
        /\ UNCHANGED <<storeVars, feedVars, missed, streamVars, process>>

\* SubscribeMarginOffers.
Subscribe(s) ==
    /\ process # "ended" /\ s \notin open \union gone
    /\ open' = open \union {s} /\ registered' = registered \union {s}
    /\ UNCHANGED <<storeVars, feedVars, missed, gone, chan, copy, process>>

\* The subscriber lists the offers, under the read lock.  What it missed before, the
\* list has, if no event is on its way that overtakes it.
ListAll(s) ==
    /\ Served /\ s \in open /\ copy[s] = None
    /\ copy' = [copy EXCEPT ![s] = table]
    /\ UNCHANGED <<storeVars, feedVars, subVars, open, gone, chan, process>>

\* A copy after a message: heartbeats change nothing.
Applied(c, m) == IF c = None \/ m = Beat THEN c ELSE [c EXCEPT ![m.id] = m.offer]

\* A mutant of StreamSend: after a shutdown began the stream sends no more.
StreamSendWhileServing(s) ==
    /\ s \in open /\ chan[s] # <<>> /\ process = "serving"
    /\ chan' = [chan EXCEPT ![s] = Tail(@)]
    /\ copy' = [copy EXCEPT ![s] = Applied(@, Head(chan[s]))]
    /\ UNCHANGED <<storeVars, feedVars, subVars, open, gone, process>>

\* The stream's handler sends a response; the client applies it to its copy.
StreamSend(s) ==
    /\ s \in open /\ chan[s] # <<>>
    /\ chan' = [chan EXCEPT ![s] = Tail(@)]
    /\ copy' = [copy EXCEPT ![s] = Applied(@, Head(chan[s]))]
    /\ UNCHANGED <<storeVars, feedVars, subVars, open, gone, process>>

\* The client leaves: the handler returns and its subscription, if the cleanup has
\* left it, is removed.
Leave(s) ==
    /\ s \in open /\ open' = open \ {s} /\ gone' = gone \union {s}
    /\ registered' = registered \ {s}
    /\ chan' = [chan EXCEPT ![s] = <<>>] /\ copy' = [copy EXCEPT ![s] = None]
    /\ UNCHANGED <<storeVars, feedVars, missed, process>>

\* main receives a signal and calls GracefulStop.
Signal ==
    /\ process = "serving" /\ process' = "stopping"
    /\ UNCHANGED <<storeVars, feedVars, subVars, streamVars>>

\* GracefulStop returns once no call is left, streams included; Close, and the end.
Shutdown ==
    /\ process = "stopping" /\ open = {} /\ announcing = <<>>
    /\ process' = "ended" /\ table' = [i \in Ids |-> None]
    /\ UNCHANGED <<last, announcing, silent, feedVars, subVars, streamVars>>

Next ==
    \/ \E i \in Ids : Create(i) \/ Update(i)
    \/ \E ids \in SUBSET Ids : Delete(ids)
    \/ \E ids \in SUBSET Ids : BulkStore(ids)
    \/ \E selected \in SUBSET Ids, batch \in Batches : BulkOverwrite(selected, batch)
    \/ NotifyChange
    \/ process # "ended" /\ (ProcessChangeEvent \/ Heartbeat \/ CleanupInactive)
    \/ \E s \in Subs : Subscribe(s) \/ ListAll(s) \/ StreamSend(s) \/ Leave(s)
    \/ Signal \/ Shutdown

Spec == Init /\ [][Next]_vars

\* The goroutines of the service run, and its clients read.  Nobody has to leave.
FairSpec ==
    /\ Spec
    /\ WF_vars(NotifyChange)
    /\ WF_vars(process # "ended" /\ ProcessChangeEvent)
    /\ WF_vars(Shutdown)
    /\ \A s \in Subs : WF_vars(StreamSend(s))

-----------------------------------------------------------------------------
OnItsWay(s, i) ==
    \/ \E k \in DOMAIN announcing : announcing[k].id = i
    \/ \E k \in DOMAIN eventChan : eventChan[k].id = i
    \/ \E k \in DOMAIN chan[s] : chan[s][k].id = i

\* A client that subscribed and then listed has the store's offer, if no change of it
\* is on its way to the client, its last change was one that is announced, and
\* neither a filter, a full channel nor the cleanup's end of its subscription, of
\* which its stream says nothing, kept that from the client (memory_store.go:79,
\* :141, memory_store_upsert.go:105, notification_service.go:159, :367).
CopyFollowsStore ==
    process # "ended" =>
        \A s \in open : copy[s] # None =>
            \A i \in Ids :
                copy[s][i] = table[i] \/ OnItsWay(s, i) \/ i \in silent \/ i \in unsent[s]

\* The state has its type, and a subscriber's copy is no further from the store
\* than what was kept from it.
FeedInv == TypeOK /\ CopyFollowsStore

\* A shutdown lets every stream send what was announced before it and by the calls
\* it waits for (grpc_server.go:46-51, main.go:75-77).
ShutdownDrains ==
    \A s \in Subs :
        process = "stopping" ~>
            (s \notin open \/ (/\ announcing = <<>> /\ eventChan = <<>>
                               /\ \A k \in DOMAIN chan[s] : chan[s][k] = Beat))

\* A signal ends the process: grpc_server.go:46 "Stop gracefully stops the gRPC
\* server", main.go:75 "Shutting down store service...".
StopReturns == process = "stopping" ~> process = "ended"

\* A stream that asked for deletions has no offer that was deleted:
\* margin_offer.proto:199 "Subscribe to specific change types", :202
\* "subscribe_deleted".
DeletionsArrive ==
    \A s \in open :
        (process = "serving" /\ copy[s] # None /\ "deleted" \in Wanted[s]) =>
            \A i \in Ids :
                (table[i] = None /\ ~OnItsWay(s, i) /\ i \notin unsent[s]) => copy[s][i] = None
=============================================================================
