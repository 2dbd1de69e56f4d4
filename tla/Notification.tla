---------------------------- MODULE Notification ----------------------------
(***************************************************************************)
(* store.NotificationService and the gRPC streams it feeds.                *)
(*                                                                         *)
(* Four kinds of goroutine meet here: the callers of NotifyChange, the     *)
(* eventProcessor, the heartbeat and cleanup tickers, and one stream       *)
(* handler (SubscribeMarginOffers) per subscription.  The event and        *)
(* heartbeat loops copy the subscription map under the read lock and send  *)
(* after releasing it, one send per step; Subscribe, Unsubscribe and the   *)
(* cleanup hold the write lock and are one step each.                      *)
(*                                                                         *)
(* Events are numbered in the order NotifyChange was called; a response on *)
(* a subscription's channel is an event's number, or 0 for a heartbeat.    *)
(***************************************************************************)
EXTENDS Naturals, Sequences, FiniteSets

CONSTANTS
    Subs,         \* subscriptions; each is used by one stream
    Request,      \* what each subscription asked for (Subscription.Filters)
    Changes,      \* the changes the store announces, in order: [type, offer]
    None,         \* a nil pointer, an unset filter
    MaxSubs,      \* ns.maxSubscriptions
    ChanCap,      \* capacity of Subscription.Channel
    EventCap,     \* capacity of ns.eventChan
    IdleRounds    \* heartbeat rounds in the hour after which a silent
                  \* subscription counts as inactive

ASSUME NotificationAssumption ==
    /\ MaxSubs \in Nat /\ ChanCap \in Nat \ {0} /\ EventCap \in Nat \ {0}
    /\ IdleRounds \in Nat \ {0}
    /\ IsFiniteSet(Subs) /\ None \notin Nat \union Subs
    /\ Len(Changes) \in Nat
    /\ \A n \in 1..Len(Changes) : Changes[n].type \in {"created", "updated", "overwritten"}

VARIABLES
    announced,    \* how many of Changes were announced
    eventChan,    \* numbers of the events waiting for the eventProcessor
    registered,   \* ns.subscriptions
    chan,         \* Subscription.Channel: the responses it buffers
    closed,       \* the channels that were closed
    missed,       \* heartbeat rounds since LastActivity, up to IdleRounds
    dispatch,     \* eventProcessor: its event, and the subscriptions to come
    beat,         \* heartbeatProcessor: the subscriptions to come
    stamp,        \* the subscription each of the two sent to last and whose
                  \* LastActivity it has yet to set
    pc,           \* where each stream's handler is
    held,         \* the response the handler is sending (None: a nil response)
    connected,    \* the streams whose client is still there
    got,          \* history: the events each client received, in order
    due,          \* history: the events each subscription should receive
    lost,         \* history: those its full channel made it miss
    quiet,        \* history: heartbeat rounds that met its full channel since the
                  \* last response that was sent to it, up to IdleRounds
    panicked      \* a send on a closed channel took the process down

handlerVars == <<pc, held, connected, got>>
notifierVars == <<announced, eventChan, dispatch, beat, stamp, due, lost, panicked>>
vars == <<notifierVars, registered, chan, closed, missed, quiet, handlerVars>>

Heartbeat == 0
Numbers == 0..Len(Changes)
Senders == {"event", "beat"}

TypeOK ==
    /\ announced \in Numbers
    /\ eventChan \in Seq(Numbers) /\ Len(eventChan) <= EventCap
    /\ registered \subseteq Subs /\ Cardinality(registered) <= MaxSubs
    /\ chan \in [Subs -> Seq(Numbers)]
    /\ \A s \in Subs : Len(chan[s]) <= ChanCap
    /\ closed \subseteq Subs
    /\ missed \in [Subs -> 0..IdleRounds] /\ quiet \in [Subs -> 0..IdleRounds]
    /\ dispatch \in [event: Numbers, left: SUBSET Subs]
    /\ beat \subseteq Subs
    /\ stamp \in [Senders -> Subs \union {None}]
    /\ pc \in [Subs -> {"new", "greet", "select", "send", "leave", "done"}]
    /\ held \in [Subs -> Numbers \union {None}]
    /\ connected \subseteq Subs
    /\ got \in [Subs -> Seq(Numbers)]
    /\ due \in [Subs -> SUBSET Numbers] /\ lost \in [Subs -> SUBSET Numbers]
    /\ panicked \in BOOLEAN

Init ==
    /\ announced = 0 /\ eventChan = <<>>
    /\ registered = {} /\ closed = {}
    /\ chan = [s \in Subs |-> <<>>]
    /\ missed = [s \in Subs |-> 0] /\ quiet = [s \in Subs |-> 0]
    /\ dispatch = [event |-> 0, left |-> {}] /\ beat = {}
    /\ stamp = [g \in Senders |-> None]
    /\ pc = [s \in Subs |-> "new"]
    /\ held = [s \in Subs |-> None]
    /\ connected = Subs
    /\ got = [s \in Subs |-> <<>>]
    /\ due = [s \in Subs |-> {}] /\ lost = [s \in Subs |-> {}]
    /\ panicked = FALSE

Running == ~panicked

-----------------------------------------------------------------------------
\* matchesSubscription: the change type is asked for and every filter that is
\* set agrees with the offer.
Matches(change, q) ==
    /\ change.type \in q.types
    /\ q.offerType \in {None, change.offer.type}
    /\ q.collateral \in {None, change.offer.collateral}
    /\ q.borrow \in {None, change.offer.borrow}
    /\ q.liquidity \in {None, change.offer.liquidity}
    /\ q.lender \in {None, change.offer.lender}

\* NotifyChange, called by the store under its own lock: never waits.
NotifyChange ==
    /\ Running /\ announced < Len(Changes)
    /\ announced' = announced + 1
    /\ eventChan' = IF Len(eventChan) < EventCap
                    THEN Append(eventChan, announced + 1) ELSE eventChan
    /\ UNCHANGED <<registered, chan, closed, missed, quiet, dispatch, beat, stamp,
                   handlerVars, due, lost, panicked>>

OneMore(rounds, s) == [rounds EXCEPT ![s] = IF @ < IdleRounds THEN @ + 1 ELSE @]

\* A mutant of Send: LastActivity is set after a heartbeat only.
SendStampsHeartbeats(sender, s, response) ==
    \/ /\ s \in closed
       /\ panicked' = TRUE
       /\ UNCHANGED <<chan, missed, quiet, stamp>>
    \/ /\ s \notin closed /\ Len(chan[s]) < ChanCap
       /\ chan' = [chan EXCEPT ![s] = Append(@, response)]
       /\ stamp' = IF response = Heartbeat THEN [stamp EXCEPT ![sender] = s] ELSE stamp
       /\ quiet' = [quiet EXCEPT ![s] = 0]
       /\ UNCHANGED <<missed, panicked>>
    \/ /\ s \notin closed /\ Len(chan[s]) = ChanCap
       /\ \/ response # Heartbeat /\ UNCHANGED <<missed, quiet>>
          \/ /\ response = Heartbeat
             /\ missed' = OneMore(missed, s) /\ quiet' = OneMore(quiet, s)
       /\ UNCHANGED <<chan, stamp, panicked>>

\* A send in a select with a default case, after the lock was released: a full
\* channel drops the response, a closed one panics.  LastActivity is set after
\* the send, by a step of its own.
Send(sender, s, response) ==
    \/ /\ s \in closed
       /\ panicked' = TRUE
       /\ UNCHANGED <<chan, missed, quiet, stamp>>
    \/ /\ s \notin closed /\ Len(chan[s]) < ChanCap
       /\ chan' = [chan EXCEPT ![s] = Append(@, response)]
       /\ stamp' = [stamp EXCEPT ![sender] = s]
       /\ quiet' = [quiet EXCEPT ![s] = 0]
       /\ UNCHANGED <<missed, panicked>>
    \/ /\ s \notin closed /\ Len(chan[s]) = ChanCap
       /\ \/ response # Heartbeat /\ UNCHANGED <<missed, quiet>>
          \/ /\ response = Heartbeat
             /\ missed' = OneMore(missed, s) /\ quiet' = OneMore(quiet, s)
       /\ UNCHANGED <<chan, stamp, panicked>>

\* Nothing reads the LastActivity of a subscription that was removed.
SetLastActivity(sender) ==
    /\ Running /\ stamp[sender] # None
    /\ missed' = [s \in Subs |->
                    IF s = stamp[sender] /\ s \in registered THEN 0 ELSE missed[s]]
    /\ stamp' = [stamp EXCEPT ![sender] = None]
    /\ UNCHANGED <<announced, eventChan, registered, chan, closed, quiet, dispatch, beat,
                   handlerVars, due, lost, panicked>>

-----------------------------------------------------------------------------
\* eventProcessor and processChangeEvent.  An event it has received but whose
\* subscriptions it has not copied yet is still counted in eventChan.
EventDone == dispatch.left = {} /\ stamp["event"] = None

ProcessChangeEvent ==
    /\ Running /\ EventDone /\ eventChan # <<>>
    /\ eventChan' = Tail(eventChan)
    /\ dispatch' = [event |-> Head(eventChan), left |-> registered]
    /\ due' = [s \in Subs |->
                 IF s \in registered /\ Matches(Changes[Head(eventChan)], Request[s])
                 THEN due[s] \union {Head(eventChan)} ELSE due[s]]
    /\ UNCHANGED <<announced, registered, chan, closed, missed, quiet, beat, stamp,
                   handlerVars, lost, panicked>>

\* A mutant of SendEvent: a subscription is served again after a success.
SendEventAgain(s) ==
    /\ Running /\ s \in dispatch.left /\ stamp["event"] = None
    /\ Matches(Changes[dispatch.event], Request[s])
    /\ Send("event", s, dispatch.event)
    /\ dispatch' = IF chan' = chan THEN [dispatch EXCEPT !.left = @ \ {s}] ELSE dispatch
    /\ lost' = IF chan' = chan THEN [lost EXCEPT ![s] = @ \union {dispatch.event}] ELSE lost
    /\ UNCHANGED <<announced, eventChan, registered, closed, beat, handlerVars, due>>

\* A mutant of SendEvent: a full channel ends the loop, as a return in the
\* default case would.
SendEventStopsAtFull(s) ==
    /\ Running /\ s \in dispatch.left /\ stamp["event"] = None
    /\ Matches(Changes[dispatch.event], Request[s])
    /\ Send("event", s, dispatch.event)
    /\ dispatch' = [dispatch EXCEPT !.left = IF chan' = chan THEN {} ELSE @ \ {s}]
    /\ lost' = IF chan' = chan THEN [lost EXCEPT ![s] = @ \union {dispatch.event}] ELSE lost
    /\ UNCHANGED <<announced, eventChan, registered, closed, beat, handlerVars, due>>

SendEvent(s) ==
    /\ Running /\ s \in dispatch.left /\ stamp["event"] = None
    /\ dispatch' = [dispatch EXCEPT !.left = @ \ {s}]
    /\ \/ /\ ~Matches(Changes[dispatch.event], Request[s])
          /\ UNCHANGED <<chan, missed, quiet, stamp, lost, panicked>>
       \/ /\ Matches(Changes[dispatch.event], Request[s])
          /\ Send("event", s, dispatch.event)
          /\ lost' = IF chan' = chan
                     THEN [lost EXCEPT ![s] = @ \union {dispatch.event}] ELSE lost
    /\ UNCHANGED <<announced, eventChan, registered, closed, beat, handlerVars, due>>

\* heartbeatProcessor: the ticker fires, then one send per subscription.
StartHeartbeats ==
    /\ Running /\ beat = {} /\ stamp["beat"] = None /\ registered # {}
    /\ beat' = registered
    /\ UNCHANGED <<announced, eventChan, registered, chan, closed, missed, quiet, dispatch,
                   stamp, handlerVars, due, lost, panicked>>

SendHeartbeat(s) ==
    /\ Running /\ s \in beat /\ stamp["beat"] = None
    /\ beat' = beat \ {s}
    /\ Send("beat", s, Heartbeat)
    /\ UNCHANGED <<announced, eventChan, registered, closed, dispatch, handlerVars, due, lost>>

\* A mutant of Cleanup: it closes the channels and forgets to delete the entries.
CleanupKeepsEntries ==
    LET inactive == {s \in registered : missed[s] >= IdleRounds}
    IN  /\ Running /\ inactive # {}
        /\ closed' = closed \union inactive
        /\ UNCHANGED <<registered, chan, missed, quiet, handlerVars, notifierVars>>

\* cleanupInactiveSubscriptions.
Cleanup ==
    LET inactive == {s \in registered : missed[s] >= IdleRounds}
    IN  /\ Running /\ inactive # {}
        /\ closed' = closed \union inactive
        /\ registered' = registered \ inactive
        /\ UNCHANGED <<chan, missed, quiet, handlerVars, notifierVars>>

-----------------------------------------------------------------------------
\* The stream handlers.
At(s, place) == Running /\ pc[s] = place
Goto(s, place) == pc' = [pc EXCEPT ![s] = place]

Subscribe(s) ==
    /\ At(s, "new")
    /\ \/ /\ Cardinality(registered) >= MaxSubs
          /\ Goto(s, "done")
          /\ UNCHANGED registered
       \/ /\ Cardinality(registered) < MaxSubs
          /\ registered' = registered \union {s}
          /\ Goto(s, "greet")
    /\ UNCHANGED <<chan, closed, missed, quiet, held, connected, got, notifierVars>>

\* A mutant of Greet: responses that came before the confirmation are discarded.
GreetDrains(s) ==
    /\ At(s, "greet")
    /\ \/ s \in connected /\ Goto(s, "select")
       \/ s \notin connected /\ Goto(s, "leave")
    /\ chan' = [chan EXCEPT ![s] = <<>>]
    /\ UNCHANGED <<registered, closed, missed, quiet, held, connected, got, notifierVars>>

\* The initial confirmation.
Greet(s) ==
    /\ At(s, "greet")
    /\ \/ s \in connected /\ Goto(s, "select")
       \/ s \notin connected /\ Goto(s, "leave")
    /\ UNCHANGED <<registered, chan, closed, missed, quiet, held, connected, got,
                   notifierVars>>

\* A receive from a closed channel yields what is left in it, then nil for ever.
Receive(s) ==
    /\ At(s, "select")
    /\ \/ /\ chan[s] # <<>>
          /\ held' = [held EXCEPT ![s] = Head(chan[s])]
          /\ chan' = [chan EXCEPT ![s] = Tail(@)]
       \/ /\ chan[s] = <<>> /\ s \in closed
          /\ held' = [held EXCEPT ![s] = None]
          /\ UNCHANGED chan
    /\ Goto(s, "send")
    /\ UNCHANGED <<registered, closed, missed, quiet, connected, got, notifierVars>>

\* A mutant of StreamSend: an error is logged and the loop goes on.
StreamSendGoesOn(s) ==
    /\ At(s, "send")
    /\ got' = IF s \notin connected \/ held[s] \in {None, Heartbeat} THEN got
              ELSE [got EXCEPT ![s] = Append(@, held[s])]
    /\ Goto(s, "select")
    /\ held' = [held EXCEPT ![s] = None]
    /\ UNCHANGED <<registered, chan, closed, missed, quiet, connected, notifierVars>>

\* stream.Send: returns when the client took the response or is gone.
StreamSend(s) ==
    /\ At(s, "send")
    /\ \/ /\ s \in connected
          /\ got' = IF held[s] \in {None, Heartbeat} THEN got
                    ELSE [got EXCEPT ![s] = Append(@, held[s])]
          /\ Goto(s, "select")
       \/ s \notin connected /\ Goto(s, "leave") /\ UNCHANGED got
    /\ held' = [held EXCEPT ![s] = None]
    /\ UNCHANGED <<registered, chan, closed, missed, quiet, connected, notifierVars>>

StreamDone(s) ==
    /\ At(s, "select") /\ s \notin connected
    /\ Goto(s, "leave")
    /\ UNCHANGED <<registered, chan, closed, missed, quiet, held, connected, got,
                   notifierVars>>

\* The deferred Unsubscribe: an error, and no second close, when the cleanup
\* was there first.  Nobody can receive from the channel any more: what it
\* holds, and the histories of the subscription, are forgotten.
Unsubscribe(s) ==
    /\ At(s, "leave")
    /\ Goto(s, "done")
    /\ registered' = registered \ {s}
    /\ closed' = closed \union (registered \intersect {s})
    /\ chan' = [chan EXCEPT ![s] = <<>>]
    /\ got' = [got EXCEPT ![s] = <<>>]
    /\ due' = [due EXCEPT ![s] = {}] /\ lost' = [lost EXCEPT ![s] = {}]
    /\ missed' = [missed EXCEPT ![s] = 0] /\ quiet' = [quiet EXCEPT ![s] = 0]
    /\ UNCHANGED <<announced, eventChan, dispatch, beat, stamp, panicked, held, connected>>

\* The client goes away.
Disconnect(s) ==
    /\ Running /\ s \in connected /\ pc[s] \notin {"new", "done"}
    /\ connected' = connected \ {s}
    /\ UNCHANGED <<registered, chan, closed, missed, quiet, pc, held, got, notifierVars>>

Handler(s) == \/ Greet(s) \/ Receive(s) \/ StreamSend(s) \/ StreamDone(s) \/ Unsubscribe(s)

Next ==
    \/ NotifyChange \/ ProcessChangeEvent \/ StartHeartbeats \/ Cleanup
    \/ \E g \in Senders : SetLastActivity(g)
    \/ \E s \in Subs : SendEvent(s) \/ SendHeartbeat(s) \/ Subscribe(s)
                         \/ Handler(s) \/ Disconnect(s)

\* The Go scheduler runs every goroutine that can run, and a client that stays
\* keeps reading.  Nothing makes a change happen, a client subscribe or leave,
\* or a ticker fire.
Fairness ==
    /\ WF_vars(ProcessChangeEvent)
    /\ WF_vars(\E s \in Subs : SendEvent(s)) /\ WF_vars(\E s \in Subs : SendHeartbeat(s))
    /\ \A g \in Senders : WF_vars(SetLastActivity(g))
    /\ \A s \in Subs : WF_vars(Handler(s))

Spec == Init /\ [][Next]_vars
FairSpec == Spec /\ Fairness

-----------------------------------------------------------------------------
\* What is on its way to a client or reached it: received, in its handler's hand,
\* in its channel.
InHand(s) == IF held[s] = None THEN <<>> ELSE <<held[s]>>
Pipeline(s) == got[s] \o InHand(s) \o chan[s]

EventsIn(q) == {q[i] : i \in DOMAIN q} \ {Heartbeat}
Increasing(q) ==
    \A i, j \in DOMAIN q : i < j /\ Heartbeat \notin {q[i], q[j]} => q[i] < q[j]

\* A client sees the events it asked for in the order they were announced and
\* none twice, across the channel, the response in the handler's hand and what
\* it already received.
DeliveredInOrder == \A s \in Subs : Increasing(Pipeline(s))

\* No silent loss: each matching event that was dispatched while a subscription
\* was registered is delivered, on its way, or was dropped because that
\* subscription's channel was full or closed; nothing else reaches the client.
NoSilentLoss ==
    \A s \in Subs :
        LET pending == IF s \in dispatch.left
                       THEN {dispatch.event} ELSE {}
            seen == EventsIn(Pipeline(s)) \union lost[s]
        IN  pc[s] \notin {"leave", "done"} =>
                /\ seen \subseteq due[s]
                /\ due[s] \subseteq seen \union pending

\* A registered subscription's channel is open, so no channel is closed twice:
\* whichever of Unsubscribe and the cleanup comes second finds it gone.
RegisteredIsOpen == registered \intersect closed = {}

\* The state has its type, and no channel is closed twice.
NotificationInv == TypeOK /\ RegisteredIsOpen

\* The cleanup takes away the channel of a stream that is served only when every
\* heartbeat of the hour met a full channel and no event was sent on it meanwhile,
\* or when a response was sent and its sender has yet to set LastActivity, which it
\* does outside the lock.
OnlySilentCutOff ==
    [][\A s \in closed' \ closed :
          pc[s] # "leave" => quiet[s] = IdleRounds \/ \E g \in Senders : stamp[g] = s]_vars

\* The send of a response never meets a closed channel ("Channel is full, skip
\* this heartbeat" is the only way a send may fail).
NoSendOnClosed == ~panicked

\* A stream whose client is gone ends, and its subscription with it: nothing
\* the notifier does keeps the handler of a gone client alive, which is what
\* GracefulStop waits for.
GoneIsDone ==
    \A s \in Subs :
        s \notin connected ~> (pc[s] = "done" /\ s \notin registered) \/ panicked

\* What a subscription should get and did not miss reaches a client that stays.
DueIsDelivered ==
    \A s \in Subs : \A n \in 1..Len(Changes) :
        n \in due[s] ~> \/ n \in lost[s] \/ \E i \in DOMAIN got[s] : got[s][i] = n
                        \/ s \notin connected \/ panicked
=============================================================================
