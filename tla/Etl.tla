-------------------------------- MODULE Etl --------------------------------
(***************************************************************************)
(* realtime-etl.Processor: chain events applied to a store.                *)
(*                                                                         *)
(* Two callbacks of the chain client put events on two bounded channels;   *)
(* one loop per channel applies them.  A margin offer event is one store   *)
(* call.  A liquidity event is two, GetByID and CreateOrUpdate, and the    *)
(* margin offer loop may run between them.  A margin offer event that      *)
(* failed comes back through a goroutine of its own, behind events that    *)
(* are newer than it.  (Nothing feeds the interest rate channel.)          *)
(*                                                                         *)
(* Events are numbered in the order the chain sent them; a stored offer    *)
(* holds the number of the margin offer event its data came from and of    *)
(* the liquidity event its amount came from (0: from the same data).       *)
(***************************************************************************)
EXTENDS Naturals, Sequences, FiniteSets

CONSTANTS
    Ids,          \* offer IDs
    None,
    Margin,       \* the margin offer events the chain sends: [kind, id, ok]
    Liquidity,    \* the liquidity events it sends: [id, known, ok]
    QueueCap,     \* capacity of each event channel
    MaxRetries    \* IsRetryable: RetryCount < 3

ASSUME EtlAssumption ==
    /\ QueueCap \in Nat \ {0} /\ MaxRetries \in Nat
    /\ Margin \in Seq([kind: {"created", "updated", "deleted"}, id: Ids, ok: BOOLEAN])
    /\ Liquidity \in Seq([id: Ids, known: BOOLEAN, ok: BOOLEAN])
    /\ None \notin [data: Nat, amount: Nat]

VARIABLES
    table,        \* the store's offers
    marginQ,      \* p.marginOfferEvents: [n, tries]
    liquidityQ,   \* p.liquidityEvents: event numbers
    sent,         \* how many events of each kind the chain has sent
    sleeping,     \* the retry goroutines: [n, tries]
    pending,      \* the liquidity event between its two store calls, or None
    status,       \* "running" or "stopped" (p.stopChan is closed)
    exited,       \* the loops that have returned
    fate,         \* history: what became of each margin offer event
    order,        \* history: the events that succeeded, in order: [n, tries]
    overtaken,    \* history: IDs whose last write put back what a liquidity
                  \* event had read before a margin offer event changed it
    overlap       \* history: such a change happened since pending's read

vars == <<table, marginQ, liquidityQ, sent, sleeping, pending, status, exited,
          fate, order, overtaken, overlap>>

Numbers == 1..Len(Margin)
Stored == [data: Nat, amount: Nat]
Attempt == [n: Numbers, tries: 0..MaxRetries]
Fates == {"unsent", "dropped", "queued", "sleeping", "applied", "abandoned", "stopped"}

TypeOK ==
    /\ table \in [Ids -> Stored \union {None}]
    /\ marginQ \in Seq(Attempt) /\ Len(marginQ) <= QueueCap
    /\ liquidityQ \in Seq(1..Len(Liquidity)) /\ Len(liquidityQ) <= QueueCap
    /\ sent \in [{"margin", "liquidity"} -> Nat]
    /\ sleeping \subseteq Attempt
    /\ pending \in [n: 1..Len(Liquidity), seen: Stored] \union {None}
    /\ status \in {"running", "stopped"}
    /\ exited \subseteq {"margin", "liquidity"}
    /\ fate \in [Numbers -> Fates]
    /\ order \in Seq(Attempt)
    /\ overtaken \subseteq Ids /\ overlap \in BOOLEAN

\* Start has connected, subscribed and started the loops.
Init ==
    /\ table = [id \in Ids |-> None]
    /\ marginQ = <<>> /\ liquidityQ = <<>>
    /\ sent = [feed \in {"margin", "liquidity"} |-> 0]
    /\ sleeping = {} /\ pending = None
    /\ status = "running" /\ exited = {}
    /\ fate = [n \in Numbers |-> "unsent"] /\ order = <<>>
    /\ overtaken = {} /\ overlap = FALSE

-----------------------------------------------------------------------------
\* The callbacks: a select between the send, the closed stopChan and a default
\* that drops the event.
HandleMarginOfferEvent ==
    LET n == sent["margin"] + 1
    IN  /\ n \in Numbers
        /\ sent' = [sent EXCEPT !["margin"] = n]
        /\ \/ /\ Len(marginQ) < QueueCap
              /\ marginQ' = Append(marginQ, [n |-> n, tries |-> 0])
              /\ fate' = [fate EXCEPT ![n] = "queued"]
           \/ /\ status = "stopped" \/ Len(marginQ) = QueueCap
              /\ fate' = [fate EXCEPT ![n] = IF status = "stopped" THEN "stopped" ELSE "dropped"]
              /\ UNCHANGED marginQ
        /\ UNCHANGED <<table, liquidityQ, sleeping, pending, status, exited, order,
                       overtaken, overlap>>

HandleLiquidityEvent ==
    LET n == sent["liquidity"] + 1
    IN  /\ n \in 1..Len(Liquidity)
        /\ sent' = [sent EXCEPT !["liquidity"] = n]
        /\ \/ Len(liquidityQ) < QueueCap /\ liquidityQ' = Append(liquidityQ, n)
           \/ (status = "stopped" \/ Len(liquidityQ) = QueueCap) /\ UNCHANGED liquidityQ
        /\ UNCHANGED <<table, marginQ, sleeping, pending, status, exited, fate, order,
                       overtaken, overlap>>

-----------------------------------------------------------------------------
\* processMarginOfferEvents.  Validate, or the store, refuses an event that is
\* not ok; a deletion of an absent offer fails with ErrOfferNotFound.
Succeeds(n) ==
    Margin[n].ok /\ (Margin[n].kind = "deleted" => table[Margin[n].id] # None)

\* The store call of a successful event: CreateOrUpdate with the event's data,
\* or Delete.
Apply(e) ==
    LET id == Margin[e.n].id
    IN  /\ table' = [table EXCEPT ![id] = IF Margin[e.n].kind = "deleted" THEN None
                                          ELSE [data |-> e.n, amount |-> 0]]
        /\ overtaken' = overtaken \ {id}
        /\ overlap' = (overlap \/ (pending # None /\ Liquidity[pending.n].id = id))
        /\ order' = Append(order, e)
        /\ fate' = [fate EXCEPT ![e.n] = "applied"]
        /\ UNCHANGED sleeping

\* A mutant of Fail: RetryCount is not counted up.
FailUncounted(e) ==
    /\ sleeping' = sleeping \union {e}
    /\ fate' = [fate EXCEPT ![e.n] = "sleeping"]
    /\ UNCHANGED <<table, order, overtaken, overlap>>

\* handleProcessingError: a goroutine that sleeps and queues the event again.
Fail(e) ==
    /\ \/ /\ e.tries < MaxRetries
          /\ sleeping' = sleeping \union {[e EXCEPT !.tries = @ + 1]}
          /\ fate' = [fate EXCEPT ![e.n] = "sleeping"]
       \/ /\ e.tries = MaxRetries
          /\ fate' = [fate EXCEPT ![e.n] = "abandoned"]
          /\ UNCHANGED sleeping
    /\ UNCHANGED <<table, order, overtaken, overlap>>

ProcessMarginOfferEvent ==
    /\ "margin" \notin exited /\ marginQ # <<>>
    /\ marginQ' = Tail(marginQ)
    /\ \/ Succeeds(Head(marginQ).n) /\ Apply(Head(marginQ))
       \/ ~Succeeds(Head(marginQ).n) /\ Fail(Head(marginQ))
    /\ UNCHANGED <<liquidityQ, sent, pending, status, exited>>

\* A mutant of Requeue: it gives up, like the callback, when the channel is full.
RequeueOrDrop(e) ==
    /\ e \in sleeping
    /\ sleeping' = sleeping \ {e}
    /\ marginQ' = IF Len(marginQ) < QueueCap THEN Append(marginQ, e) ELSE marginQ
    /\ fate' = [fate EXCEPT ![e.n] = "queued"]
    /\ UNCHANGED <<table, liquidityQ, sent, pending, status, exited, order,
                   overtaken, overlap>>

\* A mutant of Requeue: a plain send, without the case for stopChan.
RequeueUnlessFull(e) ==
    /\ e \in sleeping
    /\ sleeping' = sleeping \ {e}
    /\ Len(marginQ) < QueueCap
    /\ marginQ' = Append(marginQ, e)
    /\ fate' = [fate EXCEPT ![e.n] = "queued"]
    /\ UNCHANGED <<table, liquidityQ, sent, pending, status, exited, order,
                   overtaken, overlap>>

\* The retry goroutine wakes: unlike the callback it waits for room, or for Stop.
Requeue(e) ==
    /\ e \in sleeping
    /\ sleeping' = sleeping \ {e}
    /\ \/ /\ Len(marginQ) < QueueCap
          /\ marginQ' = Append(marginQ, e)
          /\ fate' = [fate EXCEPT ![e.n] = "queued"]
       \/ /\ status = "stopped"
          /\ fate' = [fate EXCEPT ![e.n] = "stopped"]
          /\ UNCHANGED marginQ
    /\ UNCHANGED <<table, liquidityQ, sent, pending, status, exited, order,
                   overtaken, overlap>>

-----------------------------------------------------------------------------
\* processLiquidityEvents: GetByID, which gives a copy; then CreateOrUpdate of
\* that copy with the new amount, which Validate refuses if it is not ok.  An event
\* about an absent offer, of an unknown type or refused is an error, and is not
\* retried (handleLiquidityProcessingError counts and logs it).

\* A mutant of ReadOffer: an absent offer is created from the event.
ReadOrInventOffer ==
    LET event == Liquidity[Head(liquidityQ)]
    IN  /\ "liquidity" \notin exited /\ pending = None /\ liquidityQ # <<>>
        /\ liquidityQ' = Tail(liquidityQ)
        /\ pending' = IF ~event.known THEN None
                      ELSE [n |-> Head(liquidityQ),
                            seen |-> IF table[event.id] = None THEN [data |-> 0, amount |-> 0]
                                     ELSE table[event.id]]
        /\ overlap' = FALSE
        /\ UNCHANGED <<table, marginQ, sent, sleeping, status, exited, fate, order, overtaken>>

ReadOffer ==
    LET event == Liquidity[Head(liquidityQ)]
    IN  /\ "liquidity" \notin exited /\ pending = None /\ liquidityQ # <<>>
        /\ liquidityQ' = Tail(liquidityQ)
        /\ pending' = IF table[event.id] = None \/ ~event.known THEN None
                      ELSE [n |-> Head(liquidityQ), seen |-> table[event.id]]
        /\ overlap' = FALSE
        /\ UNCHANGED <<table, marginQ, sent, sleeping, status, exited, fate, order, overtaken>>

WriteOffer ==
    /\ "liquidity" \notin exited /\ pending # None
    /\ LET event == Liquidity[pending.n]
       IN  \/ /\ event.ok
              /\ table' = [table EXCEPT ![event.id] = [pending.seen EXCEPT !.amount = pending.n]]
              /\ overtaken' = IF overlap THEN overtaken \union {event.id} ELSE overtaken
           \/ ~event.ok /\ UNCHANGED <<table, overtaken>>
    /\ pending' = None /\ overlap' = FALSE
    /\ UNCHANGED <<marginQ, liquidityQ, sent, sleeping, status, exited, fate, order>>

-----------------------------------------------------------------------------
Stop ==
    /\ status = "running" /\ status' = "stopped"
    /\ UNCHANGED <<table, marginQ, liquidityQ, sent, sleeping, pending, exited, fate,
                   order, overtaken, overlap>>

\* A loop's select finds stopChan closed; between two store calls it is not at
\* its select.
Exit(loop) ==
    /\ status = "stopped" /\ loop \notin exited
    /\ loop = "liquidity" => pending = None
    /\ exited' = exited \union {loop}
    /\ UNCHANGED <<table, marginQ, liquidityQ, sent, sleeping, pending, status, fate,
                   order, overtaken, overlap>>

Next ==
    \/ HandleMarginOfferEvent \/ HandleLiquidityEvent
    \/ ProcessMarginOfferEvent \/ ReadOffer \/ WriteOffer \/ Stop
    \/ \E e \in sleeping : Requeue(e)
    \/ \E loop \in {"margin", "liquidity"} : Exit(loop)

\* Every loop and every retry goroutine is scheduled.  Nothing makes the chain
\* send, or the operator stop.
Fairness ==
    /\ WF_vars(ProcessMarginOfferEvent) /\ WF_vars(ReadOffer) /\ WF_vars(WriteOffer)
    /\ WF_vars(\E e \in sleeping : Requeue(e))
    /\ WF_vars(Exit("margin")) /\ WF_vars(Exit("liquidity"))

Spec == Init /\ [][Next]_vars /\ Fairness

-----------------------------------------------------------------------------
\* Each event that reached the channel is in one place: in the channel, with a
\* retry goroutine, applied, given up after its last retry, or cut off by Stop.
EventsAccounted ==
    \A n \in Numbers :
        LET queued == {i \in DOMAIN marginQ : marginQ[i].n = n}
            asleep == {e \in sleeping : e.n = n}
            done == {i \in DOMAIN order : order[i].n = n}
        IN  /\ Cardinality(queued) = IF fate[n] = "queued" THEN 1 ELSE 0
            /\ Cardinality(asleep) = IF fate[n] = "sleeping" THEN 1 ELSE 0
            /\ Cardinality(done) = IF fate[n] = "applied" THEN 1 ELSE 0

\* The state has its type, and no event is lost or doubled on its way.
EtlInv == TypeOK /\ EventsAccounted

\* An event is applied after one the chain sent later only if it had failed
\* before: the channel keeps the chain's order, the retries do not.
OutOfOrderOnlyByRetry ==
    \A i, j \in DOMAIN order : i < j /\ order[i].n > order[j].n => order[j].tries > 0

\* The store holds what the last margin offer event applied to each ID left,
\* liquidity amounts apart, unless a liquidity event wrote back what it had
\* read before that event: no other order of calls loses an update or brings a
\* deleted offer back.
LastOf(id) ==
    LET mine == {i \in DOMAIN order : Margin[order[i].n].id = id}
    IN  IF mine = {} THEN None
        ELSE LET n == order[CHOOSE i \in mine : \A j \in mine : j <= i].n
             IN  IF Margin[n].kind = "deleted" THEN None ELSE n
StoreFollowsEvents ==
    \A id \in Ids \ overtaken :
        LastOf(id) = IF table[id] = None THEN None ELSE table[id].data

\* An event that is queued or sleeping is settled in the end, by success, by
\* running out of retries, or by Stop.
EventsSettle ==
    \A n \in Numbers :
        fate[n] \in {"queued", "sleeping"} ~>
            fate[n] \in {"applied", "abandoned", "stopped"} \/ status = "stopped"

\* After Stop every loop returns and every retry goroutine ends.
StopEnds == status = "stopped" ~> exited = {"margin", "liquidity"} /\ sleeping = {}
=============================================================================
